---- MODULE Spec2Model ----
(***************************************************************************)
(* Curation prioritisation and risk-flagging engine of kalimax:            *)
(*   src/src/data/medical_risk_flagging.py     (MedicalRiskFlagger)        *)
(*   src/src/data/curation_prioritizer.py      (CurationPrioritizer)       *)
(*   src/src/data/cultural_expression_batcher.py (CulturalExpressionBatcher)*)
(*   src/src/data/curation_dashboard.py        (CurationDashboard)         *)
(*                                                                         *)
(* Text is modelled as a sequence of word tokens (what str.split() yields).*)
(* Confidence is modelled in hundredths (0.30 is 30).  A regular           *)
(* expression is modelled by its source string and by the set of token     *)
(* sequences it matches: each alternative is a sequence of token sets, and *)
(* \b...\b with \s+ between words is adjacency of whole tokens.            *)
(***************************************************************************)
EXTENDS Integers, Sequences, FiniteSets, TLC

VARIABLES
    risk_patterns,    \* MedicalRiskFlagger.risk_patterns: level -> list of rules
    custom_calls,     \* number of add_custom_risk_pattern calls made so far
    analysis,         \* per text: the latest analyze_text_for_risks call on it
    high_risk_terms,  \* CurationPrioritizer.high_risk_terms (cache built in __init__)
    store,            \* the database: table name -> list of rows, a row's id is its index
    re_bound,         \* whether the batcher module's global name "re" is bound
    sweep,            \* the flag_database_entries call in progress, if any
    reviews,          \* per reviewer: their status-changing call in progress, if any
    ret               \* the last operation and what it returned

vars == <<risk_patterns, custom_calls, analysis, high_risk_terms, store, re_bound, sweep, reviews, ret>>

\* No sweep is in progress.
NoSweep == [active |-> FALSE]

\* The reviewers who may be at work at the same time, none of them in a call.
Reviewers == {"r1", "r2"}
NoReviews == [r \in Reviewers |-> [pc |-> "idle"]]

----------------------------------------------------------------------------
(* Bounds *)

MaxCustom == 2

\* The three curated tables, and a database holding none of their rows.
Tables == {"corpus", "glossary", "expressions"}
EmptyStore == [t \in Tables |-> <<>>]

----------------------------------------------------------------------------
(* Text: tokens, str.lower(), re.search *)

\* str.lower() on one token: the capitalised tokens of the vocabulary.
LowerMap ==
    ( "Patient" :> "patient" @@ "Take" :> "take" @@ "Regular" :> "regular"
      @@ "Good" :> "good" @@ "Call" :> "call" @@ "Blood" :> "blood"
      @@ "Life-threatening" :> "life-threatening" @@ "Severe" :> "severe"
      @@ "Brain" :> "brain" @@ "Drug" :> "drug" @@ "Suicide" :> "suicide"
      @@ "Incorrect" :> "incorrect" @@ "Pregnancy-related" :> "pregnancy-related"
      @@ "Cancer" :> "cancer" @@ "Antibiotic" :> "antibiotic"
      @@ "Surgical" :> "surgical" @@ "Medication" :> "medication"
      @@ "Dosage" :> "dosage" @@ "Routine" :> "routine" @@ "TWICE" :> "twice"
      @@ "Critical" :> "critical" @@ "Tablets" :> "tablets"
      @@ "Papa" :> "papa" @@ "Piti" :> "piti" @@ "Old" :> "old" )

Capitalised == DOMAIN LowerMap

LowerTok(tok) == IF tok \in Capitalised THEN LowerMap[tok] ELSE tok

Lower(text) == [i \in DOMAIN text |-> LowerTok(text[i])]

\* \d+ : the all-digit tokens of the vocabulary.
Num == {"2", "3", "911", "500"}

\* A number written against its unit with no space ("500mg"): <<token, unit>>.
GluedTokens == { <<"500mg", "mg">> }

\* One alternative matches at position i of the token sequence, ignoring case
\* (the patterns are lower case, so that is comparing the lowered tokens).
AltMatchesAt(alt, toks, i) ==
    /\ i + Len(alt) - 1 <= Len(toks)
    /\ \A j \in 1..Len(alt) : LowerTok(toks[i + j - 1]) \in alt[j]

\* re.search(pattern, text, re.IGNORECASE)
ReSearch(pattern, text) ==
    \E alt \in pattern.alts :
        \E i \in 1..Len(text) : AltMatchesAt(alt, text, i)

\* \bw1\s+w2...\b : a fixed phrase.
Phrase(src, ws) == [src |-> src, alts |-> { [i \in DOMAIN ws |-> {ws[i]}] }]

\* \b\d+\s*unit\b : a number, then the unit, with or without a space.
NumUnit(src, units) ==
    [src |-> src,
     alts |-> { <<Num, units>>,
                << {g[1] : g \in {x \in GluedTokens : x[2] \in units}} >> }]

----------------------------------------------------------------------------
(* MedicalRiskFlagger: the rule table.  The Haitian variants are written    *)
(* without their diacritics.                                               *)

RiskLevels == <<"critical", "high", "moderate", "low">>

Rule(term, level, category, reason, variants, patterns) ==
    [term |-> term, risk_level |-> level, category |-> category,
     reason |-> reason, haitian_variants |-> variants,
     context_patterns |-> patterns]

CriticalRules ==
    << Rule(<<"cardiac", "arrest">>, "critical", "emergency",
            <<"Life-threatening", "condition", "requiring", "immediate", "action">>,
            <<"ke a rete", "ke a kanpe">>,
            << Phrase("\\bcardiac\\s+arrest\\b", <<"cardiac", "arrest">>),
               Phrase("\\bheart\\s+stopped\\b", <<"heart", "stopped">>) >>),
       Rule(<<"anaphylaxis">>, "critical", "allergy",
            <<"Severe", "allergic", "reaction,", "potentially", "fatal">>,
            <<"gwo aleji", "aleji grav">>,
            << Phrase("\\banaphylaxis\\b", <<"anaphylaxis">>),
               Phrase("\\banaphylactic\\s+shock\\b", <<"anaphylactic", "shock">>) >>),
       Rule(<<"stroke">>, "critical", "neurological",
            <<"Brain", "emergency", "requiring", "immediate", "treatment">>,
            <<"atak serebral", "paralizi">>,
            << Phrase("\\bstroke\\b", <<"stroke">>),
               Phrase("\\bcerebral\\s+infarction\\b", <<"cerebral", "infarction">>) >>),
       Rule(<<"overdose">>, "critical", "toxicology",
            <<"Drug", "overdose", "can", "be", "fatal">>,
            <<"twop medikaman", "sedoz">>,
            << Phrase("\\boverdose\\b", <<"overdose">>),
               Phrase("\\btoo\\s+much\\s+medication\\b", <<"too", "much", "medication">>) >>),
       Rule(<<"suicide">>, "critical", "mental_health",
            <<"Suicide", "risk", "requires", "immediate", "intervention">>,
            <<"touye tet", "komisuisid">>,
            << Phrase("\\bsuicide\\b", <<"suicide">>),
               Phrase("\\bkill\\s+myself\\b", <<"kill", "myself">>),
               Phrase("\\bend\\s+my\\s+life\\b", <<"end", "my", "life">>) >>) >>

HighRules ==
    << Rule(<<"insulin">>, "high", "medication",
            <<"Incorrect", "insulin", "dosage", "can", "be", "dangerous">>,
            <<"ensilin", "medikaman diabet">>,
            << Phrase("\\binsulin\\b", <<"insulin">>),
               Phrase("\\bdiabetic\\s+medication\\b", <<"diabetic", "medication">>) >>),
       Rule(<<"blood", "pressure">>, "high", "cardiovascular",
            <<"Blood", "pressure", "management", "is", "critical">>,
            <<"tansyon", "presyon san">>,
            << Phrase("\\bblood\\s+pressure\\b", <<"blood", "pressure">>),
               Phrase("\\bhypertension\\b", <<"hypertension">>) >>),
       Rule(<<"pregnancy">>, "high", "obstetrics",
            <<"Pregnancy-related", "care", "requires", "precision">>,
            <<"gwoses", "ansent">>,
            << Phrase("\\bpregnant\\b", <<"pregnant">>),
               Phrase("\\bpregnancy\\b", <<"pregnancy">>),
               Phrase("\\bexpecting\\b", <<"expecting">>) >>),
       Rule(<<"chemotherapy">>, "high", "oncology",
            <<"Cancer", "treatment", "requires", "precise", "communication">>,
            <<"chimyoterapi", "tretman kanse">>,
            << Phrase("\\bchemotherapy\\b", <<"chemotherapy">>),
               Phrase("\\bchemo\\b", <<"chemo">>),
               Phrase("\\bcancer\\s+treatment\\b", <<"cancer", "treatment">>) >>) >>

ModerateRules ==
    << Rule(<<"antibiotic">>, "moderate", "medication",
            <<"Antibiotic", "resistance", "and", "allergies", "are", "concerns">>,
            <<"antibiyotik", "medikaman enfeksyon">>,
            << Phrase("\\bantibiotic\\b", <<"antibiotic">>),
               Phrase("\\bpenicillin\\b", <<"penicillin">>) >>),
       Rule(<<"surgery">>, "moderate", "procedure",
            <<"Surgical", "procedures", "require", "clear", "communication">>,
            <<"operasyon", "chiri">>,
            << Phrase("\\bsurgery\\b", <<"surgery">>),
               Phrase("\\boperation\\b", <<"operation">>),
               Phrase("\\bprocedure\\b", <<"procedure">>) >>) >>

\* _initialize_risk_patterns: a dict keyed CRITICAL, HIGH, MODERATE (no LOW key;
\* an absent key is the empty list here, and a dict iterates in insertion
\* order, so LOW, once added, comes last).
InitialRiskPatterns ==
    ( "critical" :> CriticalRules @@ "high" :> HighRules
      @@ "moderate" :> ModerateRules @@ "low" :> <<>> )

\* _initialize_medication_patterns
MedicationPatterns ==
    << NumUnit("\\b\\d+\\s*mg\\b", {"mg"}),
       NumUnit("\\b\\d+\\s*ml\\b", {"ml"}),
       [src |-> "\\btake\\s+\\d+\\b", alts |-> { <<{"take"}, Num>> }],
       [src |-> "\\bevery\\s+\\d+\\s+hours\\b",
        alts |-> { <<{"every"}, Num, {"hours"}>> }],
       Phrase("\\btwice\\s+daily\\b", <<"twice", "daily">>),
       Phrase("\\bonce\\s+daily\\b", <<"once", "daily">>),
       Phrase("\\bbefore\\s+meals\\b", <<"before", "meals">>),
       Phrase("\\bafter\\s+meals\\b", <<"after", "meals">>),
       Phrase("\\bwith\\s+food\\b", <<"with", "food">>),
       Phrase("\\bon\\s+empty\\s+stomach\\b", <<"on", "empty", "stomach">>) >>

\* _initialize_dosage_patterns
DosagePatterns ==
    << NumUnit("\\b\\d+\\s*tablets?\\b", {"tablet", "tablets"}),
       NumUnit("\\b\\d+\\s*capsules?\\b", {"capsule", "capsules"}),
       NumUnit("\\b\\d+\\s*drops?\\b", {"drop", "drops"}),
       NumUnit("\\b\\d+\\s*teaspoons?\\b", {"teaspoon", "teaspoons"}),
       NumUnit("\\b\\d+\\s*tablespoons?\\b", {"tablespoon", "tablespoons"}),
       Phrase("\\bhalf\\s+tablet\\b", <<"half", "tablet">>),
       Phrase("\\bquarter\\s+tablet\\b", <<"quarter", "tablet">>) >>

----------------------------------------------------------------------------
(* MedicalRiskFlagger.analyze_text_for_risks *)

RECURSIVE FirstMatch(_, _, _)
\* Index of the first pattern of the list, from k on, that matches; 0 if none.
FirstMatch(patterns, text, k) ==
    IF k > Len(patterns) THEN 0
    ELSE IF ReSearch(patterns[k], text) THEN k
    ELSE FirstMatch(patterns, text, k + 1)

\* for risk_level, risk_flags in self.risk_patterns.items(): for risk_flag in ...
RulesInOrder(rp) ==
    LET Tag(level) == [i \in DOMAIN rp[level] |-> [level |-> level, rule |-> rp[level][i]]]
    IN  Tag(RiskLevels[1]) \o Tag(RiskLevels[2]) \o Tag(RiskLevels[3]) \o Tag(RiskLevels[4])

RiskRecord(level, rule, pattern) ==
    [term |-> rule.term,
     risk_level |-> level,
     category |-> rule.category,
     reason |-> rule.reason,
     matched_pattern |-> pattern.src,
     haitian_variants |-> rule.haitian_variants,
     requires_immediate_review |-> level \in {"critical", "high"}]

RECURSIVE VocabularyRisks(_, _, _)
\* The loop over the rule table: one record per rule with a matching pattern
\* (break after the first matching pattern of a rule).
VocabularyRisks(entries, text, k) ==
    IF k > Len(entries) THEN <<>>
    ELSE LET e == entries[k]
             m == FirstMatch(e.rule.context_patterns, Lower(text), 1)
         IN  (IF m = 0 THEN <<>>
              ELSE << RiskRecord(e.level, e.rule, e.rule.context_patterns[m]) >>)
             \o VocabularyRisks(entries, text, k + 1)

MedicationDosageRecord(pattern) ==
    [term |-> <<"medication_dosage">>,
     risk_level |-> "high",
     category |-> "medication",
     reason |-> <<"Medication", "dosage", "requires", "precise", "translation">>,
     matched_pattern |-> pattern.src,
     haitian_variants |-> <<"doz medikaman", "kantite medikaman">>,
     requires_immediate_review |-> TRUE]

DosageInstructionRecord(pattern) ==
    [term |-> <<"dosage_instruction">>,
     risk_level |-> "high",
     category |-> "dosage",
     reason |-> <<"Dosage", "instructions", "must", "be", "translated", "accurately">>,
     matched_pattern |-> pattern.src,
     haitian_variants |-> <<"enstriksyon doz", "jan pou pran">>,
     requires_immediate_review |-> TRUE]

\* _check_medication_risks: at most one record per pattern list.
CheckMedicationRisks(text) ==
    LET m == FirstMatch(MedicationPatterns, text, 1)
        d == FirstMatch(DosagePatterns, text, 1)
    IN  (IF m = 0 THEN <<>> ELSE << MedicationDosageRecord(MedicationPatterns[m]) >>)
        \o (IF d = 0 THEN <<>> ELSE << DosageInstructionRecord(DosagePatterns[d]) >>)

\* A scanner in which a vocabulary hit suppresses the structural scan.
AnalyzeTextForRisks_Suppressing(rp, text) ==
    LET v == VocabularyRisks(RulesInOrder(rp), text, 1)
    IN  IF v # <<>> THEN v ELSE CheckMedicationRisks(text)

AnalyzeTextForRisks(rp, text) ==
    VocabularyRisks(RulesInOrder(rp), text, 1) \o CheckMedicationRisks(text)

----------------------------------------------------------------------------
(* Sample texts *)

T_cardiac == <<"Patient", "is", "experiencing", "cardiac", "arrest">>
T_insulin == <<"Take", "2", "insulin", "injections", "daily">>
T_bp      == <<"Regular", "checkup", "for", "blood", "pressure">>
T_surgery == <<"Patient", "needs", "surgery">>
T_plain   == <<"Good", "morning">>
T_dose    == <<"2", "Tablets", "TWICE", "daily">>
T_mg      == <<"insulin", "500mg">>
T_creole  == <<"ke", "a", "rete">>
T_911     == <<"Call", "911", "immediately", "if", "chest", "pain", "worsens">>

SampleTexts == {T_cardiac, T_insulin, T_bp, T_surgery, T_plain, T_dose, T_mg, T_creole, T_911}

\* The texts analyze_text_for_risks is called on directly, and those among
\* them whose successive results are logged.
AnalysisTexts == {T_cardiac, T_insulin, T_dose, T_plain, T_mg}
LoggedTexts == {T_cardiac, T_insulin}

\* Arguments add_custom_risk_pattern is called with.
CustomRules ==
    { Rule(<<"injection">>, "high", "procedure",
           <<"Injection", "technique", "matters">>, <<>>,
           << [src |-> "\\binjections?\\b", alts |-> { <<{"injection", "injections"}>> }] >>),
      Rule(<<"patient">>, "low", "general",
           <<"Routine", "mention">>, <<>>,
           << Phrase("\\bpatient\\b", <<"patient">>) >>) }

NoCall == [epoch |-> -1, flags |-> <<>>]

----------------------------------------------------------------------------
(* Operations of the risk classifier *)

\* The scan of each sample text under the built-in rule table, evaluated once.
BuiltinAnalysis == [t \in SampleTexts |-> AnalyzeTextForRisks(InitialRiskPatterns, t)]

\* self.analyze_text_for_risks(text) on the flagger's current rule table.
Scan(text) ==
    IF risk_patterns = InitialRiskPatterns /\ text \in SampleTexts
    THEN BuiltinAnalysis[text]
    ELSE AnalyzeTextForRisks(risk_patterns, text)

Logged(text, flags) ==
    IF text \in LoggedTexts
    THEN [analysis EXCEPT ![text] = [epoch |-> custom_calls, flags |-> flags]]
    ELSE analysis

PreviousCall(text) == IF text \in LoggedTexts THEN analysis[text] ELSE NoCall

\* A scan that drops the first High rule from the table once it has run.
AnalyzeText_Consuming(text) ==
    LET flags == Scan(text)
    IN  /\ ret' = [op |-> "analyze", text |-> text, flags |-> flags,
                   epoch |-> custom_calls, prev |-> PreviousCall(text)]
        /\ analysis' = Logged(text, flags)
        /\ risk_patterns' = [risk_patterns EXCEPT !["high"] =
                                 IF @ = <<>> THEN @ ELSE Tail(@)]
        /\ UNCHANGED <<reviews, sweep, custom_calls, high_risk_terms, store, re_bound>>

AnalyzeText(text) ==
    LET flags == Scan(text)
    IN  /\ ret' = [op |-> "analyze", text |-> text, flags |-> flags,
                   epoch |-> custom_calls, prev |-> PreviousCall(text)]
        /\ analysis' = Logged(text, flags)
        /\ UNCHANGED <<reviews, sweep, risk_patterns, custom_calls, high_risk_terms, store, re_bound>>

\* add_custom_risk_pattern: append the rule to the list of its level.
AddCustomRiskPattern(rule) ==
    /\ custom_calls < MaxCustom
    /\ risk_patterns' = [risk_patterns EXCEPT ![rule.risk_level] = Append(@, rule)]
    /\ custom_calls' = custom_calls + 1
    /\ ret' = [op |-> "add_custom_risk_pattern", term |-> rule.term]
    /\ UNCHANGED <<reviews, sweep, analysis, high_risk_terms, store, re_bound>>

InitAnalyze ==
    /\ risk_patterns = InitialRiskPatterns
    /\ custom_calls = 0
    /\ analysis = [t \in LoggedTexts |-> NoCall]
    /\ high_risk_terms = {}
    /\ store = EmptyStore
    /\ re_bound = FALSE
    /\ sweep = NoSweep
    /\ reviews = NoReviews
    /\ ret = [op |-> "init"]

NextAnalyze ==
    \/ \E text \in AnalysisTexts : AnalyzeText(text)
    \/ \E rule \in CustomRules : AddCustomRiskPattern(rule)

SpecAnalyze == InitAnalyze /\ [][NextAnalyze]_vars

----------------------------------------------------------------------------
(* CurationPrioritizer: the high-risk term cache and calculate_priority *)

\* class PriorityLevel
CRITICAL == 1
HIGH == 2
MEDIUM == 3
LOW == 4

\* Rows the store's high_risk table may hold (creole_term, risk_level).
HighRiskRows ==
    { [creole_term |-> <<"Ke", "a", "rete">>, risk_level |-> "critical"],
      [creole_term |-> <<"sedoz">>, risk_level |-> "critical"],
      [creole_term |-> <<"Cardiac", "arrest">>, risk_level |-> "critical"],
      [creole_term |-> <<"tansyon">>, risk_level |-> "high"] }

\* _load_high_risk_terms: the lowered creole_term of every critical row, and
\* the empty set when the read raises.
LoadHighRiskTerms(rows, readable) ==
    IF readable
    THEN {Lower(r.creole_term) : r \in {x \in rows : x.risk_level = "critical"}}
    ELSE {}

\* term in text_lower
Contains(term, text_lower) ==
    \E i \in 0..(Len(text_lower) - Len(term)) :
        \A j \in 1..Len(term) : text_lower[i + j] = term[j]

\* calculate_priority with the domain test ahead of the very-low-confidence test.
CalculatePriority_DomainFirst(terms, confidence, domain, text, table_name) ==
    LET text_lower == Lower(text)
    IN  IF \E term \in terms : Contains(term, text_lower)
        THEN [priority |-> CRITICAL, risk_flags |-> <<"high_risk_medical">>]
        ELSE IF domain = "medical" \/ confidence < 50
        THEN [priority |-> HIGH,
              risk_flags |-> (IF domain = "medical" THEN <<"medical_domain">> ELSE <<>>)
                             \o (IF confidence < 50 THEN <<"low_confidence">> ELSE <<>>)]
        ELSE IF confidence < 30
        THEN [priority |-> CRITICAL, risk_flags |-> <<"very_low_confidence">>]
        ELSE IF table_name = "expressions" \/ domain = "cultural" \/ confidence < 70
        THEN [priority |-> MEDIUM,
              risk_flags |-> (IF table_name = "expressions"
                              THEN <<"cultural_expression">> ELSE <<>>)
                             \o (IF confidence < 70 THEN <<"moderate_confidence">> ELSE <<>>)]
        ELSE [priority |-> LOW, risk_flags |-> <<>>]

CalculatePriority(terms, confidence, domain, text, table_name) ==
    LET text_lower == Lower(text)
    IN  IF \E term \in terms : Contains(term, text_lower)
        THEN [priority |-> CRITICAL, risk_flags |-> <<"high_risk_medical">>]
        ELSE IF confidence < 30
        THEN [priority |-> CRITICAL, risk_flags |-> <<"very_low_confidence">>]
        ELSE IF domain = "medical" \/ confidence < 50
        THEN [priority |-> HIGH,
              risk_flags |-> (IF domain = "medical" THEN <<"medical_domain">> ELSE <<>>)
                             \o (IF confidence < 50 THEN <<"low_confidence">> ELSE <<>>)]
        ELSE IF table_name = "expressions" \/ domain = "cultural" \/ confidence < 70
        THEN [priority |-> MEDIUM,
              risk_flags |-> (IF table_name = "expressions"
                              THEN <<"cultural_expression">> ELSE <<>>)
                             \o (IF confidence < 70 THEN <<"moderate_confidence">> ELSE <<>>)]
        ELSE [priority |-> LOW, risk_flags |-> <<>>]

\* Arguments calculate_priority is called with.
Confidences == {0, 29, 30, 49, 50, 69, 70, 90, 100}
Domains == {"medical", "cultural", "general"}
PriorityTexts == {T_cardiac, T_creole, T_plain, T_bp}

CalculatePriorityCall(confidence, domain, text, table_name) ==
    LET r == CalculatePriority(high_risk_terms, confidence, domain, text, table_name)
    IN  /\ ret' = [op |-> "calculate_priority", confidence |-> confidence,
                   domain |-> domain, text |-> text, table_name |-> table_name,
                   priority |-> r.priority, risk_flags |-> r.risk_flags]
        /\ UNCHANGED <<reviews, sweep, risk_patterns, custom_calls, analysis, high_risk_terms, store, re_bound>>

\* CurationPrioritizer.__init__ on any content of the high_risk table.
InitPriority ==
    /\ risk_patterns = InitialRiskPatterns
    /\ custom_calls = 0
    /\ analysis = [t \in LoggedTexts |-> NoCall]
    /\ \E rows \in SUBSET HighRiskRows : \E readable \in BOOLEAN :
           high_risk_terms = LoadHighRiskTerms(rows, readable)
    /\ store = EmptyStore
    /\ re_bound = FALSE
    /\ sweep = NoSweep
    /\ reviews = NoReviews
    /\ ret = [op |-> "init"]

NextPriority ==
    \E confidence \in Confidences, domain \in Domains,
       text \in PriorityTexts, table_name \in Tables :
        CalculatePriorityCall(confidence, domain, text, table_name)

SpecPriority == InitPriority /\ [][NextPriority]_vars

----------------------------------------------------------------------------
(* The database (corpus, glossary, expressions): rows and their columns.   *)
(* src_text / tgt_text are the two text columns the engine reads of a row  *)
(* (corpus: src_text, tgt_text_localized; glossary: creole_canonical,      *)
(* english_equivalents; expressions: creole, idiomatic_en); domain is the  *)
(* row's domain (register in expressions).                                 *)

MaxRows == 2

\* The value of a numeric column no statement has written yet.
Unset == 0

\* CURRENT_TIMESTAMP / datetime('now'): a timestamp column that has been written.
Now == 1

\* A row as ingestion leaves it: draft, no derived field written.
Row(src_text, tgt_text, domain, confidence) ==
    [src_text |-> src_text, tgt_text |-> tgt_text, domain |-> domain,
     confidence |-> confidence, curation_status |-> "draft",
     medical_risk_flags |-> <<>>, requires_immediate_review |-> Unset,
     priority_level |-> Unset, curator_notes |-> "", cultural_note |-> <<>>,
     updated_at |-> Unset, curation_date |-> Unset]

CorpusRows ==
    << Row(T_bp, T_creole, "general", 90),
       Row(T_cardiac, <<>>, "medical", 20),
       Row(T_surgery, T_plain, "general", 50),
       Row(T_911, <<>>, "medical", 90) >>

GlossaryRows == << Row(T_creole, T_insulin, "medical", 90) >>

ExpressionRows == << Row(T_creole, T_plain, "general", 60) >>

Catalog == [corpus |-> CorpusRows, glossary |-> GlossaryRows, expressions |-> ExpressionRows]

RECURSIVE Picked(_, _)
\* The rows of a catalogue list at the chosen positions, in catalogue order.
Picked(rows, chosen) ==
    IF rows = <<>> THEN <<>>
    ELSE (IF Len(rows) \in chosen THEN Picked(SubSeq(rows, 1, Len(rows) - 1), chosen) \o << rows[Len(rows)] >>
          ELSE Picked(SubSeq(rows, 1, Len(rows) - 1), chosen))

\* Each catalogue row ingested at most once, at most MaxRows rows in all.
InitialStores ==
    { [t \in Tables |-> Picked(Catalog[t], chosen[t])] :
        chosen \in { c \in [Tables -> SUBSET DOMAIN CorpusRows] :
                       /\ \A t \in Tables : c[t] \subseteq DOMAIN Catalog[t]
                       /\ Cardinality(c["corpus"]) + Cardinality(c["glossary"])
                          + Cardinality(c["expressions"]) <= MaxRows } }

----------------------------------------------------------------------------
(* MedicalRiskFlagger.flag_database_entries *)

\* json.dumps of one flag record, as the sequence of its keys and strings.
FlagJson(f) ==
    <<"term">> \o f.term \o <<"risk_level", f.risk_level, "category", f.category>>
    \o <<"reason">> \o f.reason \o <<"matched_pattern", f.matched_pattern>>
    \o <<"haitian_variants">> \o f.haitian_variants
    \o <<"requires_immediate_review",
         IF f.requires_immediate_review THEN "true" ELSE "false">>

RECURSIVE JsonDumps(_)
JsonDumps(all_risks) ==
    IF all_risks = <<>> THEN <<>>
    ELSE FlagJson(Head(all_risks)) \o JsonDumps(Tail(all_risks))

\* risk_json LIKE '%needle%': the needle occurs somewhere in the dumped text,
\* letter case ignored.  Among the strings of the rule table a needle occurs
\* only as a whole word.
Like(risk_json, needle) ==
    \E i \in DOMAIN risk_json : LowerTok(risk_json[i]) = needle

\* The CASE expression of the UPDATE statement.
PriorityLevelCase(risk_json) ==
    IF Like(risk_json, "critical") THEN 1
    ELSE IF Like(risk_json, "high") THEN 2
    ELSE 3

\* The scan of the text columns that have content.
AllRisks(row) ==
    (IF row.src_text # <<>> THEN Scan(row.src_text) ELSE <<>>)
    \o (IF row.tgt_text # <<>> THEN Scan(row.tgt_text) ELSE <<>>)

\* A row loop that also takes rows that are no longer draft.
FlagRow_AnyStatus(row) ==
    LET all_risks == AllRisks(row)
    IN  IF all_risks # <<>>
        THEN [row EXCEPT !.medical_risk_flags = all_risks,
                         !.requires_immediate_review = 1,
                         !.priority_level = PriorityLevelCase(JsonDumps(all_risks))]
        ELSE row

\* A write-back that appends the new flags to the stored ones.
FlagRow_Appending(row) ==
    LET all_risks == AllRisks(row)
    IN  IF row.curation_status = "draft" /\ all_risks # <<>>
        THEN [row EXCEPT !.medical_risk_flags = @ \o all_risks,
                         !.requires_immediate_review = 1,
                         !.priority_level = PriorityLevelCase(JsonDumps(all_risks))]
        ELSE row

\* One iteration of the row loop: the SELECT yields only draft rows, and the
\* UPDATE runs only when the scan found something.
FlagRow(row) ==
    LET all_risks == AllRisks(row)
    IN  IF row.curation_status = "draft" /\ all_risks # <<>>
        THEN [row EXCEPT !.medical_risk_flags = all_risks,
                         !.requires_immediate_review = 1,
                         !.priority_level = PriorityLevelCase(JsonDumps(all_risks))]
        ELSE row

\* tables_to_check, restricted to the names the loop does not skip.
\* "None" stands for the default argument.
TablesToCheck(table_name) ==
    IF table_name = "None" THEN Tables ELSE {table_name} \cap Tables

\* The rows the SELECT of each checked table yields.
DraftRows(tables) ==
    { <<t, i>> \in Tables \X (1..MaxRows) :
        /\ t \in tables
        /\ i \in DOMAIN store[t]
        /\ store[t][i].curation_status = "draft" }

\* The flag records of the given level found on those rows.
RisksAt(level, tables) ==
    UNION { { <<p, k>> : k \in { j \in DOMAIN AllRisks(store[p[1]][p[2]]) :
                                   AllRisks(store[p[1]][p[2]])[j].risk_level = level } } :
            p \in DraftRows(tables) }

FlagStats(tables) ==
    [total_checked |-> Cardinality(DraftRows(tables)),
     flagged |-> Cardinality({ p \in DraftRows(tables) : AllRisks(store[p[1]][p[2]]) # <<>> }),
     critical |-> Cardinality(RisksAt("critical", tables)),
     high |-> Cardinality(RisksAt("high", tables))]

\* flag_database_entries(table_name): every draft row of the checked tables
\* is scanned and written back, then one commit.
FlagDatabaseEntries(table_name) ==
    LET tables == TablesToCheck(table_name)
    IN  /\ store' = [t \in Tables |->
                        IF t \in tables
                        THEN [i \in DOMAIN store[t] |-> FlagRow(store[t][i])]
                        ELSE store[t]]
        /\ ret' = [op |-> "flag_database_entries", table_name |-> table_name,
                   stats |-> FlagStats(tables),
                   repeated |-> /\ ret.op = "flag_database_entries"
                                /\ ret.table_name = table_name,
                   changed |-> store' # store]
        /\ UNCHANGED <<reviews, sweep, risk_patterns, custom_calls, analysis, high_risk_terms, re_bound>>

----------------------------------------------------------------------------
(* CurationDashboard.update_curation_status and                            *)
(* CurationPrioritizer.mark_task_completed                                 *)

\* A reviewer's write that leaves the notes as they are.
UpdateWhereId_StatusOnly(table, id, status, notes, stamp) ==
    [store EXCEPT ![table] =
        [i \in DOMAIN @ |-> IF i = id
                            THEN [@[i] EXCEPT !.curation_status = status, ![stamp] = Now]
                            ELSE @[i]]]

\* UPDATE <table> SET curation_status = ?, curator_notes = ?, <stamp> = now
\* WHERE id = ?: the database after it.
UpdateWhereId(table, id, status, notes, stamp) ==
    [store EXCEPT ![table] =
        [i \in DOMAIN @ |-> IF i = id
                            THEN [@[i] EXCEPT !.curation_status = status,
                                              !.curator_notes = notes,
                                              ![stamp] = Now]
                            ELSE @[i]]]

\* update_curation_status: neither the table name nor the status is
\* validated; a table the database does not have makes execute() raise.
UpdateCurationStatus(entry_id, table, new_status, curator_notes) ==
    /\ IF table \in Tables
       THEN /\ store' = UpdateWhereId(table, entry_id, new_status, curator_notes, "updated_at")
            /\ ret' = [op |-> "update_curation_status", result |-> TRUE]
       ELSE /\ store' = store
            /\ ret' = [op |-> "update_curation_status", result |-> FALSE]
    /\ UNCHANGED <<reviews, sweep, risk_patterns, custom_calls, analysis, high_risk_terms, re_bound>>

\* A completion that only takes rows that are still draft.
MarkTaskCompleted_DraftOnly(table_name, task_id, curator_notes) ==
    /\ store' = IF /\ table_name \in Tables
                   /\ task_id \in DOMAIN store[table_name]
                   /\ store[table_name][task_id].curation_status = "draft"
                THEN UpdateWhereId(table_name, task_id, "reviewed", curator_notes, "curation_date")
                ELSE store
    /\ ret' = [op |-> "mark_task_completed"]
    /\ UNCHANGED <<reviews, sweep, risk_patterns, custom_calls, analysis, high_risk_terms, re_bound>>

\* mark_task_completed: the same UPDATE with the status fixed to 'reviewed'.
MarkTaskCompleted(table_name, task_id, curator_notes) ==
    /\ store' = IF table_name \in Tables
                THEN UpdateWhereId(table_name, task_id, "reviewed", curator_notes, "curation_date")
                ELSE store
    /\ ret' = [op |-> "mark_task_completed"]
    /\ UNCHANGED <<reviews, sweep, risk_patterns, custom_calls, analysis, high_risk_terms, re_bound>>

----------------------------------------------------------------------------
(* CurationPrioritizer.get_prioritized_tasks *)

\* row['confidence'] or 0.5
ConfidenceOrDefault(confidence) == IF confidence = 0 THEN 50 ELSE confidence

\* The fields of the CurationTask built for row i of table t.
TaskOf(t, i) ==
    LET row == store[t][i]
        confidence == ConfidenceOrDefault(row.confidence)
        r == CalculatePriority(high_risk_terms, confidence, row.domain, row.src_text, t)
    IN  [id |-> i, table_name |-> t, src_text |-> row.src_text,
         tgt_text |-> row.tgt_text, confidence |-> confidence,
         domain |-> row.domain, priority |-> r.priority, risk_flags |-> r.risk_flags]

RECURSIVE TableTasks(_, _, _, _)
\* The row loop of one table: draft rows of the filtered domain whose
\* priority passes the priority filter (0 stands for no filter, "None" for
\* no domain filter).
TableTasks(t, i, priority_filter, domain_filter) ==
    IF i > Len(store[t]) THEN <<>>
    ELSE LET row == store[t][i]
             selected == /\ row.curation_status = "draft"
                         /\ domain_filter \in {"None", row.domain}
                         /\ priority_filter \in {0, TaskOf(t, i).priority}
         IN  (IF selected THEN << TaskOf(t, i) >> ELSE <<>>)
             \o TableTasks(t, i + 1, priority_filter, domain_filter)

\* The tasks the loops reach the CurationTask constructor for, in loop order.
ReachedTasks(priority_filter, domain_filter) ==
    TableTasks("corpus", 1, priority_filter, domain_filter)
    \o TableTasks("glossary", 1, priority_filter, domain_filter)
    \o TableTasks("expressions", 1, priority_filter, domain_filter)

\* The sort key (t.priority.value, t.confidence), compared as tuples.
KeyLE(a, b) ==
    \/ a.priority < b.priority
    \/ a.priority = b.priority /\ a.confidence <= b.confidence

RECURSIVE Insert(_, _)
Insert(sorted, x) ==
    IF sorted = <<>> THEN << x >>
    ELSE IF KeyLE(Head(sorted), x) THEN << Head(sorted) >> \o Insert(Tail(sorted), x)
    ELSE << x >> \o sorted

RECURSIVE SortTasks(_)
\* list.sort(key=...): stable.
SortTasks(tasks) ==
    IF tasks = <<>> THEN <<>>
    ELSE Insert(SortTasks(SubSeq(tasks, 1, Len(tasks) - 1)), tasks[Len(tasks)])

\* tasks[:limit] for a limit that is not negative.
Take(tasks, limit) == SubSeq(tasks, 1, IF limit < Len(tasks) THEN limit ELSE Len(tasks))

\* The CurationTask constructor call evaluates row.get('cultural_note') on a
\* sqlite3.Row, which has no attribute get: the first row that reaches it
\* raises AttributeError, and the except clause returns [].
GetPrioritizedTasks(limit, priority_filter, domain_filter) ==
    LET reached == ReachedTasks(priority_filter, domain_filter)
        tasks == IF reached # <<>> THEN <<>> ELSE Take(SortTasks(<<>>), limit)
    IN  /\ ret' = [op |-> "get_prioritized_tasks", limit |-> limit,
                   priority_filter |-> priority_filter, domain_filter |-> domain_filter,
                   tasks |-> tasks]
        /\ UNCHANGED <<reviews, sweep, risk_patterns, custom_calls, analysis, high_risk_terms,
                       store, re_bound>>

----------------------------------------------------------------------------
(* CurationPrioritizer._estimate_curation_time *)

\* A variant that adds both medical surcharges when both tags are present.
EstimateCurationTime_Additive(text, risk_flags) ==
    LET word_count == Len(text)
        base_time == 5
            + (IF word_count > 20 THEN 3 ELSE IF word_count > 10 THEN 2 ELSE 0)
            + (IF "high_risk_medical" \in risk_flags THEN 10 ELSE 0)
            + (IF "medical_domain" \in risk_flags THEN 5 ELSE 0)
            + (IF "cultural_expression" \in risk_flags THEN 3 ELSE 0)
            + (IF "very_low_confidence" \in risk_flags THEN 5 ELSE 0)
    IN  IF base_time < 30 THEN base_time ELSE 30

\* The tag list is read only through membership tests, so it is a set here;
\* len(text.split()) is the number of tokens.
EstimateCurationTime(text, risk_flags) ==
    LET word_count == Len(text)
        base_time == 5
            + (IF word_count > 20 THEN 3 ELSE IF word_count > 10 THEN 2 ELSE 0)
            + (IF "high_risk_medical" \in risk_flags THEN 10
               ELSE IF "medical_domain" \in risk_flags THEN 5 ELSE 0)
            + (IF "cultural_expression" \in risk_flags THEN 3 ELSE 0)
            + (IF "very_low_confidence" \in risk_flags THEN 5 ELSE 0)
    IN  IF base_time < 30 THEN base_time ELSE 30

\* The tags calculate_priority can attach.
TagNames == {"high_risk_medical", "very_low_confidence", "medical_domain",
             "low_confidence", "cultural_expression", "moderate_confidence"}

\* Texts of the word counts around the two thresholds.
WordCounts == {0, 10, 11, 20, 21}
TextOfWords(n) == [i \in 1..n |-> "word"]

EstimateCurationTimeCall(text, risk_flags) ==
    /\ ret' = [op |-> "estimate_curation_time", text |-> text,
               risk_flags |-> risk_flags,
               minutes |-> EstimateCurationTime(text, risk_flags)]
    /\ UNCHANGED <<reviews, sweep, risk_patterns, custom_calls, analysis, high_risk_terms,
                   store, re_bound>>

NextEstimate ==
    \E n \in WordCounts, risk_flags \in SUBSET TagNames :
        EstimateCurationTimeCall(TextOfWords(n), risk_flags)

InitEstimate ==
    /\ risk_patterns = InitialRiskPatterns
    /\ custom_calls = 0
    /\ analysis = [t \in LoggedTexts |-> NoCall]
    /\ high_risk_terms = LoadHighRiskTerms(HighRiskRows, TRUE)
    /\ store = EmptyStore
    /\ re_bound = FALSE
    /\ sweep = NoSweep
    /\ reviews = NoReviews
    /\ ret = [op |-> "init"]

SpecEstimate == InitEstimate /\ [][NextEstimate]_vars

----------------------------------------------------------------------------
(* The engine on a database: sweeps, status updates, queue requests *)

SweepArgs == Tables \cup {"None", "high_risk"}
TableArgs == Tables \cup {"no_such_table"}
StatusArgs == {"draft", "approved", "needs_review"}
NoteArgs == {"ok"}
LimitArgs == {1, 5}

Init ==
    /\ risk_patterns = InitialRiskPatterns
    /\ custom_calls = 0
    /\ analysis = [t \in LoggedTexts |-> NoCall]
    /\ high_risk_terms = LoadHighRiskTerms(HighRiskRows, TRUE)
    /\ store \in InitialStores
    /\ re_bound = FALSE
    /\ sweep = NoSweep
    /\ reviews = NoReviews
    /\ ret = [op |-> "init"]

Next ==
    \/ \E table_name \in SweepArgs : FlagDatabaseEntries(table_name)
    \/ \E entry_id \in 1..MaxRows, table \in TableArgs,
          new_status \in StatusArgs, curator_notes \in NoteArgs :
           UpdateCurationStatus(entry_id, table, new_status, curator_notes)

Spec == Init /\ [][Next]_vars

\* Completed tasks between sweeps and approvals.
NextMark ==
    \/ FlagDatabaseEntries("None")
    \/ \E entry_id \in 1..MaxRows, table \in Tables :
           UpdateCurationStatus(entry_id, table, "approved", "")
    \/ \E table_name \in TableArgs, task_id \in 1..MaxRows, curator_notes \in NoteArgs :
           MarkTaskCompleted(table_name, task_id, curator_notes)

SpecMark == Init /\ [][NextMark]_vars

\* The upstream owner of the text rewrites the source text of a corpus row;
\* the engine's columns stay as they are.
UpstreamEdit(id, text) ==
    /\ id \in DOMAIN store["corpus"]
    /\ store' = [store EXCEPT !["corpus"][id].src_text = text]
    /\ ret' = [op |-> "upstream_edit"]
    /\ UNCHANGED <<risk_patterns, custom_calls, analysis, high_risk_terms, re_bound, sweep, reviews>>

\* Sweeps of the corpus between upstream edits.
NextStale ==
    \/ \E table_name \in {"corpus", "None"} : FlagDatabaseEntries(table_name)
    \/ \E id \in 1..MaxRows, text \in {T_plain, T_cardiac} : UpstreamEdit(id, text)

SpecStale == Init /\ [][NextStale]_vars

\* Queue requests between status changes, for either outcome of the cache load.
InitQueue ==
    /\ risk_patterns = InitialRiskPatterns
    /\ custom_calls = 0
    /\ analysis = [t \in LoggedTexts |-> NoCall]
    /\ \E readable \in BOOLEAN :
           high_risk_terms = LoadHighRiskTerms(HighRiskRows, readable)
    /\ store \in InitialStores
    /\ re_bound = FALSE
    /\ sweep = NoSweep
    /\ reviews = NoReviews
    /\ ret = [op |-> "init"]

NextQueue ==
    \/ \E entry_id \in 1..MaxRows, table \in Tables, new_status \in StatusArgs :
           UpdateCurationStatus(entry_id, table, new_status, "")
    \/ \E table_name \in Tables, task_id \in 1..MaxRows :
           MarkTaskCompleted(table_name, task_id, "")
    \/ \E limit \in LimitArgs, priority_filter \in {0, CRITICAL},
          domain_filter \in {"None", "medical"} :
           GetPrioritizedTasks(limit, priority_filter, domain_filter)

SpecQueue == InitQueue /\ [][NextQueue]_vars

----------------------------------------------------------------------------
(* flag_database_entries statement by statement: one connection, one       *)
(* transaction over the whole sweep, one commit at its end                 *)

ZeroStats == [total_checked |-> 0, flagged |-> 0, critical |-> 0, high |-> 0]

\* tables_to_check, in the order the loop walks it.
TableList(table_name) ==
    IF table_name = "None" THEN <<"corpus", "glossary", "expressions">>
    ELSE <<table_name>>

\* The ids the SELECT of a table yields, in id order.
DraftIds(db, table) ==
    LET Ids[n \in 0..Len(db[table])] ==
            IF n = 0 THEN <<>>
            ELSE IF db[table][n].curation_status = "draft" THEN Append(Ids[n - 1], n)
            ELSE Ids[n - 1]
    IN  Ids[Len(db[table])]

\* The counters after one iteration of the row loop, as they stand just
\* before its UPDATE.
RowStats(stats, all_risks) ==
    LET AtLevel(level) == Cardinality({ j \in DOMAIN all_risks : all_risks[j].risk_level = level })
    IN  IF all_risks = <<>>
        THEN [stats EXCEPT !.total_checked = @ + 1]
        ELSE [stats EXCEPT !.total_checked = @ + 1,
                           !.flagged = @ + 1,
                           !.critical = @ + AtLevel("critical"),
                           !.high = @ + AtLevel("high")]

\* sqlite3.connect succeeds.  The connection opens its transaction at its
\* first UPDATE (locked); from then on conn is the data as the transaction
\* sees it, and no other connection can write until the commit.
SweepConnect(table_name) ==
    /\ ~sweep.active
    /\ sweep' = [active |-> TRUE, table_name |-> table_name,
                 tables |-> TableList(table_name), table |-> "None",
                 rows |-> <<>>, stats |-> ZeroStats, conn |-> store,
                 locked |-> FALSE]
    /\ UNCHANGED <<reviews, risk_patterns, custom_calls, analysis, high_risk_terms, store, re_bound, ret>>

\* The except branch: the transaction is rolled back, the error is logged
\* and the counters are returned as they stand.
SweepRaise(table_name, stats) ==
    /\ sweep' = NoSweep
    /\ ret' = [op |-> "flag_database_entries", table_name |-> table_name,
               stats |-> stats, raised |-> TRUE]
    /\ UNCHANGED <<reviews, risk_patterns, custom_calls, analysis, high_risk_terms, store, re_bound>>

\* sqlite3.connect raises: the store is unreachable.
SweepConnectError(table_name) ==
    /\ ~sweep.active
    /\ SweepRaise(table_name, ZeroStats)

\* The data the sweep's connection reads: its own transaction once it has
\* written, the committed data before that.
SweepView == IF sweep.locked THEN sweep.conn ELSE store

\* Some reviewer's UPDATE is executed and not yet committed.
ReviewerWrites == \E r \in Reviewers : reviews[r].pc = "written"

\* UPDATE <table> SET medical_risk_flags = ?, requires_immediate_review = 1,
\* priority_level = CASE ... WHERE id = ?: the row after it.
UpdateFlags(row, all_risks) ==
    [row EXCEPT !.medical_risk_flags = all_risks,
                !.requires_immediate_review = 1,
                !.priority_level = PriorityLevelCase(JsonDumps(all_risks))]

\* The next table of the loop: its SELECT, or continue for an unknown name.
SweepSelect ==
    /\ sweep.active
    /\ sweep.rows = <<>>
    /\ sweep.tables # <<>>
    /\ LET table == Head(sweep.tables)
       IN  sweep' = [sweep EXCEPT !.tables = Tail(@),
                                  !.table = table,
                                  !.rows = IF table \in Tables
                                           THEN DraftIds(SweepView, table)
                                           ELSE <<>>]
    /\ UNCHANGED <<reviews, risk_patterns, custom_calls, analysis, high_risk_terms, store, re_bound, ret>>

\* The SELECT raises.
SweepSelectError ==
    /\ sweep.active
    /\ sweep.rows = <<>>
    /\ sweep.tables # <<>>
    /\ Head(sweep.tables) \in Tables
    /\ SweepRaise(sweep.table_name, sweep.stats)

\* One iteration of the row loop on a fetched row: the scan of its text
\* and, when it found something, the UPDATE by id, which waits while a
\* reviewer's write is uncommitted.
SweepRow ==
    /\ sweep.active
    /\ sweep.rows # <<>>
    /\ LET row_id == Head(sweep.rows)
           row == SweepView[sweep.table][row_id]
           all_risks == AllRisks(row)
       IN  IF all_risks = <<>>
           THEN sweep' = [sweep EXCEPT !.rows = Tail(@),
                                       !.stats = RowStats(@, all_risks)]
           ELSE /\ sweep.locked \/ ~ReviewerWrites
                /\ sweep' = [sweep EXCEPT
                                !.rows = Tail(@),
                                !.stats = RowStats(@, all_risks),
                                !.conn = [SweepView EXCEPT ![sweep.table][row_id] =
                                              UpdateFlags(row, all_risks)],
                                !.locked = TRUE]
    /\ UNCHANGED <<reviews, risk_patterns, custom_calls, analysis, high_risk_terms, store, re_bound, ret>>

\* The UPDATE of a row raises, after the counters were incremented for it.
SweepUpdateError ==
    /\ sweep.active
    /\ sweep.rows # <<>>
    /\ LET row == SweepView[sweep.table][Head(sweep.rows)]
       IN  /\ AllRisks(row) # <<>>
           /\ SweepRaise(sweep.table_name, RowStats(sweep.stats, AllRisks(row)))

\* conn.commit() after the last table, then return stats.
SweepCommit ==
    /\ sweep.active
    /\ sweep.rows = <<>>
    /\ sweep.tables = <<>>
    /\ store' = SweepView
    /\ sweep' = NoSweep
    /\ ret' = [op |-> "flag_database_entries", table_name |-> sweep.table_name,
               stats |-> sweep.stats, raised |-> FALSE]
    /\ UNCHANGED <<reviews, risk_patterns, custom_calls, analysis, high_risk_terms, re_bound>>

\* conn.commit() raises.
SweepCommitError ==
    /\ sweep.active
    /\ sweep.rows = <<>>
    /\ sweep.tables = <<>>
    /\ SweepRaise(sweep.table_name, sweep.stats)

\* The process dies during the sweep: the open transaction is lost and
\* nothing is returned.
SweepCrash ==
    /\ sweep.active
    /\ sweep' = NoSweep
    /\ ret' = [op |-> "crash"]
    /\ UNCHANGED <<reviews, risk_patterns, custom_calls, analysis, high_risk_terms, store, re_bound>>

NextSweep ==
    \/ \E table_name \in SweepArgs : SweepConnect(table_name)
    \/ \E table_name \in SweepArgs : SweepConnectError(table_name)
    \/ SweepSelect
    \/ SweepSelectError
    \/ SweepRow
    \/ SweepUpdateError
    \/ SweepCommit
    \/ SweepCommitError
    \/ SweepCrash

SpecSweep == Init /\ [][NextSweep]_vars

----------------------------------------------------------------------------
(* Reviewers and a sweep at work at the same time: each call runs on its   *)
(* own connection, one UPDATE statement and one commit; the database lets  *)
(* one connection write at a time, and a second writer waits (sqlite3's    *)
(* busy timeout)                                                           *)

\* What the two operations pass to their UPDATE.
ReviewOps ==
    { [op |-> "update_curation_status", status |-> "approved", stamp |-> "updated_at"],
      [op |-> "update_curation_status", status |-> "draft", stamp |-> "updated_at"],
      [op |-> "mark_task_completed", status |-> "reviewed", stamp |-> "curation_date"] }

\* The notes each reviewer types.
ReviewNotes == [r1 |-> "ok", r2 |-> "fix"]

\* A reviewer enters update_curation_status or mark_task_completed on a
\* corpus entry: sqlite3.connect.
ReviewCall(r, call, id, notes) ==
    /\ reviews[r].pc = "idle"
    /\ reviews' = [reviews EXCEPT ![r] =
                      [pc |-> "connected", op |-> call.op, table |-> "corpus", id |-> id,
                       status |-> call.status, notes |-> notes, stamp |-> call.stamp,
                       overlap |-> \E o \in Reviewers \ {r} :
                                       reviews[o].pc \in {"connected", "written"}]]
    /\ UNCHANGED <<risk_patterns, custom_calls, analysis, high_risk_terms, store, re_bound, sweep, ret>>

\* cursor.execute(UPDATE ...), once no other connection has a write pending.
ReviewExecute(r) ==
    /\ reviews[r].pc = "connected"
    /\ ~ReviewerWrites
    /\ sweep.active => ~sweep.locked
    /\ reviews' = [reviews EXCEPT ![r].pc = "written"]
    /\ UNCHANGED <<risk_patterns, custom_calls, analysis, high_risk_terms, store, re_bound, sweep, ret>>

\* conn.commit() and the return.
ReviewCommit(r) ==
    /\ reviews[r].pc = "written"
    /\ store' = UpdateWhereId(reviews[r].table, reviews[r].id, reviews[r].status,
                              reviews[r].notes, reviews[r].stamp)
    /\ reviews' = [reviews EXCEPT ![r].pc = "done"]
    /\ ret' = [op |-> reviews[r].op, result |-> TRUE]
    /\ UNCHANGED <<risk_patterns, custom_calls, analysis, high_risk_terms, re_bound, sweep>>

\* Two corpus rows: the rows the reviewers and the sweep meet on.
ConcurrentStores ==
    { s \in InitialStores : Len(s.corpus) = 2 /\ s.glossary = <<>> /\ s.expressions = <<>> }

InitConcurrent ==
    /\ risk_patterns = InitialRiskPatterns
    /\ custom_calls = 0
    /\ analysis = [t \in LoggedTexts |-> NoCall]
    /\ high_risk_terms = LoadHighRiskTerms(HighRiskRows, TRUE)
    /\ store \in ConcurrentStores
    /\ re_bound = FALSE
    /\ sweep = NoSweep
    /\ reviews = NoReviews
    /\ ret = [op |-> "init"]

NextConcurrent ==
    \/ \E r \in Reviewers, call \in ReviewOps, id \in DOMAIN store["corpus"] :
           ReviewCall(r, call, id, ReviewNotes[r])
    \/ \E r \in Reviewers : ReviewExecute(r)
    \/ \E r \in Reviewers : ReviewCommit(r)
    \/ SweepConnect("corpus")
    \/ SweepSelect
    \/ SweepRow
    \/ SweepCommit

SpecConcurrent == InitConcurrent /\ [][NextConcurrent]_vars

----------------------------------------------------------------------------
(* CulturalExpressionBatcher: the pattern tables.  Creole words are written *)
(* without their diacritics.                                               *)

\* \bw1 w2\b : the words, adjacent.
Words(ws) == [kind |-> "phrase", alts |-> { [i \in DOMAIN ws |-> {ws[i]}] }]

\* \ba\b.*\bb\b : the first word, and the second one somewhere after it.
Gap(a, b) == [kind |-> "gap", first |-> a, second |-> b]

\* ^[A-Z].*\.$ : the text starts with a letter and ends with a full stop.
Sentence == [kind |-> "sentence"]

\* The tokens that end with a full stop.
PeriodTokens == {"saying."}

\* The tokens that start with a letter.
LetterFirst(tok) == tok \notin Num \cup {""} \cup {g[1] : g \in GluedTokens}

\* re.search(pattern, full_text, re.IGNORECASE) for the three pattern shapes.
BatchSearch(pattern, text) ==
    CASE pattern.kind = "phrase" -> ReSearch(pattern, text)
      [] pattern.kind = "gap" ->
            \E i, j \in DOMAIN text :
                /\ i < j
                /\ LowerTok(text[i]) = pattern.first
                /\ LowerTok(text[j]) = pattern.second
      [] pattern.kind = "sentence" ->
            /\ text # <<>>
            /\ LetterFirst(text[1])
            /\ text[Len(text)] \in PeriodTokens

W(w) == Words(<<w>>)

\* _initialize_regional_patterns, in dictionary order.
RegionalPatterns ==
    << [region |-> "ouest",
        patterns |-> << W("potoprens"), W("kapital"), W("lavil"),
                        W("petyonvil"), W("delma"), W("kenskof") >>],
       [region |-> "nord",
        patterns |-> << W("kapayisyen"), W("okap"), W("milo"),
                        W("dondon"), W("plendino") >>],
       [region |-> "sud",
        patterns |-> << W("lekay"), W("sud"), W("akaye"),
                        W("posale"), W("chantal") >>],
       [region |-> "artibonite",
        patterns |-> << W("gonayiv"), W("desalin"), W("verret"),
                        W("petitgwav"), W("marebale") >>],
       [region |-> "centre",
        patterns |-> << W("inch"), W("mayisad"), W("tomaso"), W("boukankare") >>],
       [region |-> "grand_anse",
        patterns |-> << W("jeremi"), W("korbay"), Words(<<"dame", "mari">>),
                        W("moron"), W("pestel") >>],
       [region |-> "nippes",
        patterns |-> << W("miragwan"), W("barade"), Words(<<"fon", "verret">>),
                        Words(<<"petit", "trou">>) >>],
       [region |-> "nord_est",
        patterns |-> << W("folibete"), W("wanament"), W("karakte"),
                        Words(<<"mombin", "kwoch">>) >>],
       [region |-> "nord_ouest",
        patterns |-> << W("podepe"), W("janrabel"), W("molsenmikel"),
                        W("bombadil") >>],
       [region |-> "sud_est",
        patterns |-> << W("jakmel"), W("marigo"), W("kaye"),
                        W("belans"), W("kotdefe") >>] >>

\* _initialize_expression_classifiers, in dictionary order.
ExpressionClassifiers ==
    << [type |-> "idiom",
        patterns |-> << Gap("kou", "kout"), Gap("si", "si"), Gap("tan", "tan"),
                        Gap("kom", "kom"), Gap("depi", "rive") >>],
       [type |-> "proverb",
        patterns |-> << Sentence, W("preveb"), W("ditou"),
                        Words(<<"gen", "yon", "mo", "ki", "di">>),
                        Words(<<"kom", "yo", "di">>) >>],
       [type |-> "medical_cultural",
        patterns |-> << W("fey"), W("tizann"), W("remed"),
                        Words(<<"medsen", "fey">>), Words(<<"dokte", "fey">>),
                        W("manbo"), W("wanga") >>],
       [type |-> "religious",
        patterns |-> << W("bondye"), W("jezu"), W("sen"), W("lwa"),
                        W("veve"), W("priye"), W("kanzo") >>],
       [type |-> "social",
        patterns |-> << W("kominote"), W("vwazinaj"), W("konbit"),
                        W("sosyete"), W("famn") >>],
       [type |-> "family",
        patterns |-> << W("fanmi"), W("manman"), W("papa"), W("tonton"),
                        W("matant"), W("kouzen"), W("tifi"), W("tigason") >>],
       [type |-> "food",
        patterns |-> << W("manje"), W("kuizin"), W("diri"), W("pwa"),
                        W("banann"), W("kalalou"), W("griyo") >>],
       [type |-> "weather",
        patterns |-> << W("lapli"), W("sel"), W("van"), W("siklon"),
                        W("sezon"), W("freche"), W("cho") >>],
       [type |-> "work",
        patterns |-> << W("travay"), W("job"), W("komes"), W("kilte"),
                        W("peyizan"), W("machann") >>],
       [type |-> "celebration",
        patterns |-> << W("fet"), W("kanaval"), W("noel"), W("pak"),
                        W("muzik"), W("danse"), W("konpa") >>] >>

----------------------------------------------------------------------------
(* CulturalExpressionBatcher.classify_expression *)

\* f"{creole_text} {english_text} {cultural_note}".lower(), as the pieces
\* between its single spaces: an empty part leaves an empty piece.
Part(text) == IF text = <<>> THEN <<"">> ELSE Lower(text)

FullText(creole_text, english_text, cultural_note) ==
    Part(creole_text) \o Part(english_text) \o Part(cultural_note)

RECURSIVE FirstRegion(_, _)
\* The region loop: the first region, in table order, with a matching pattern.
FirstRegion(full_text, k) ==
    IF k > Len(RegionalPatterns) THEN "general"
    ELSE IF \E n \in DOMAIN RegionalPatterns[k].patterns :
                BatchSearch(RegionalPatterns[k].patterns[n], full_text)
         THEN RegionalPatterns[k].region
         ELSE FirstRegion(full_text, k + 1)

\* sum(1 for pattern in patterns if re.search(...))
Matches(patterns, full_text) ==
    Cardinality({ n \in DOMAIN patterns : BatchSearch(patterns[n], full_text) })

RECURSIVE BestType(_, _, _, _)
\* The type loop: a type replaces the current one only with strictly more
\* matches; the default is idiom.
BestType(full_text, k, expression_type, max_matches) ==
    IF k > Len(ExpressionClassifiers) THEN expression_type
    ELSE LET matches == Matches(ExpressionClassifiers[k].patterns, full_text)
         IN  IF matches > max_matches
             THEN BestType(full_text, k + 1, ExpressionClassifiers[k].type, matches)
             ELSE BestType(full_text, k + 1, expression_type, max_matches)

ClassifyExpression(creole_text, english_text, cultural_note) ==
    LET full_text == FullText(creole_text, english_text, cultural_note)
    IN  [region |-> FirstRegion(full_text, 1),
         type |-> BestType(full_text, 1, "idiom", 0)]

----------------------------------------------------------------------------
(* Expressions for batching *)

MaxExpressions == 3

X_manman == <<"manman", "okap">>
X_papa   == <<"Papa", "okap">>
X_tonton == <<"tonton", "okap">>
X_bondye == <<"bondye", "bon">>
X_piti   == <<"Piti", "piti">>
N_saying == <<"Old", "saying.">>

ExpressionRow(creole, idiomatic_en, cultural_note, confidence) ==
    [Row(creole, idiomatic_en, "general", confidence)
        EXCEPT !.cultural_note = cultural_note]

BatchCatalog ==
    << ExpressionRow(X_manman, T_plain, <<>>, 40),
       ExpressionRow(X_papa, <<>>, <<>>, 40),
       ExpressionRow(X_tonton, T_plain, <<>>, 70),
       ExpressionRow(X_bondye, T_plain, <<>>, 30),
       ExpressionRow(X_piti, T_plain, N_saying, 55) >>

ClassifiedSamples ==
    [r \in { <<BatchCatalog[k].src_text, BatchCatalog[k].tgt_text,
               BatchCatalog[k].cultural_note>> : k \in DOMAIN BatchCatalog } |->
        ClassifyExpression(r[1], r[2], r[3])]

\* self.classify_expression(creole, idiomatic_en, cultural_note)
Classify(creole_text, english_text, cultural_note) ==
    IF <<creole_text, english_text, cultural_note>> \in DOMAIN ClassifiedSamples
    THEN ClassifiedSamples[<<creole_text, english_text, cultural_note>>]
    ELSE ClassifyExpression(creole_text, english_text, cultural_note)

----------------------------------------------------------------------------
(* CulturalExpressionBatcher.create_batches *)

RECURSIVE OrderByConfidence_Descending(_)
\* A query that yields the highest confidence first.
OrderByConfidence_Descending(ids) ==
    IF ids = {} THEN <<>>
    ELSE LET rows == store["expressions"]
             m == CHOOSE x \in ids : \A y \in ids :
                      \/ rows[x].confidence > rows[y].confidence
                      \/ rows[x].confidence = rows[y].confidence /\ x >= y
         IN  << m >> \o OrderByConfidence_Descending(ids \ {m})

RECURSIVE OrderByConfidence(_)
\* ORDER BY confidence ASC, id ASC over a set of row ids.
OrderByConfidence(ids) ==
    IF ids = {} THEN <<>>
    ELSE LET rows == store["expressions"]
             m == CHOOSE x \in ids : \A y \in ids :
                      \/ rows[x].confidence < rows[y].confidence
                      \/ rows[x].confidence = rows[y].confidence /\ x <= y
         IN  << m >> \o OrderByConfidence(ids \ {m})

\* dict(expr) for the row with the given id.
ExprDict(id) ==
    LET row == store["expressions"][id]
    IN  [id |-> id, creole |-> row.src_text, idiomatic_en |-> row.tgt_text,
         cultural_note |-> row.cultural_note, confidence |-> row.confidence]

\* A query without the WHERE clause on curation_status.
Classified_AnyStatus ==
    LET ids == OrderByConfidence(DOMAIN store["expressions"])
    IN  [k \in DOMAIN ids |->
            LET e == ExprDict(ids[k])
                c == Classify(e.creole, e.idiomatic_en, e.cultural_note)
            IN  [expr |-> e, region |-> c.region, type |-> c.type]]

\* The draft expressions in query order, each with its classification.
Classified ==
    LET ids == OrderByConfidence({ i \in DOMAIN store["expressions"] :
                   store["expressions"][i].curation_status = "draft" })
    IN  [k \in DOMAIN ids |->
            LET e == ExprDict(ids[k])
                c == Classify(e.creole, e.idiomatic_en, e.cultural_note)
            IN  [expr |-> e, region |-> c.region, type |-> c.type]]

\* The filters: "None" stands for no filter.
Filtered(region_filter, type_filter) ==
    SelectSeq(Classified, LAMBDA c : /\ region_filter \in {"None", c.region}
                                     /\ type_filter \in {"None", c.type})

RECURSIVE Distinct(_)
\* The values of a list, each once, in the order of its first occurrence.
Distinct(seq) ==
    IF seq = <<>> THEN <<>>
    ELSE LET front == Distinct(SubSeq(seq, 1, Len(seq) - 1))
             last == seq[Len(seq)]
         IN  IF \E i \in DOMAIN front : front[i] = last THEN front
             ELSE Append(front, last)

RECURSIVE Flatten(_)
Flatten(seqs) == IF seqs = <<>> THEN <<>> ELSE Head(seqs) \o Flatten(Tail(seqs))

\* grouped_expressions: the (region, type) groups in the order the nested
\* dictionaries are iterated, each with its expressions in query order.
Groups(cs) ==
    LET regions == Distinct([k \in DOMAIN cs |-> cs[k].region])
        GroupsOf(region) ==
            LET of_region == SelectSeq(cs, LAMBDA c : c.region = region)
                types == Distinct([k \in DOMAIN of_region |-> of_region[k].type])
            IN  [n \in DOMAIN types |->
                    LET members == SelectSeq(of_region, LAMBDA c : c.type = types[n])
                    IN  [region |-> region, type |-> types[n],
                         expressions_list |-> [k \in DOMAIN members |-> members[k].expr]]]
    IN  Flatten([r \in DOMAIN regions |-> GroupsOf(regions[r])])

\* _get_expert_domain
ExpertDomain(region, expr_type) ==
    LET base_domain ==
            CASE expr_type = "medical_cultural" -> "medical_anthropologist"
              [] expr_type = "religious" -> "religious_studies"
              [] expr_type = "proverb" -> "cultural_linguist"
              [] expr_type = "food" -> "culinary_anthropologist"
              [] expr_type = "family" -> "social_anthropologist"
              [] expr_type = "celebration" -> "cultural_historian"
              [] OTHER -> "cultural_linguist"
    IN  IF region # "general" THEN <<base_domain, region>> ELSE <<base_domain>>

RECURSIVE EstimateBatchTime(_)
\* _estimate_batch_time, in minutes.
EstimateBatchTime(expressions) ==
    IF expressions = <<>> THEN 0
    ELSE LET expr == Head(expressions)
         IN  8
             + (IF Len(expr.creole) > 10 THEN 3 ELSE 0)
             + (IF expr.confidence < 40 THEN 5
                ELSE IF expr.confidence < 60 THEN 2 ELSE 0)
             + (IF expr.cultural_note # <<>> THEN 2 ELSE 0)
             + EstimateBatchTime(Tail(expressions))

RECURSIVE SumConfidence(_)
SumConfidence(expressions) ==
    IF expressions = <<>> THEN 0
    ELSE Head(expressions).confidence + SumConfidence(Tail(expressions))

\* round(num / den) to the nearest integer, ties to the even one.
RoundDiv(num, den) ==
    LET q == num \div den
        r == num % den
    IN  IF 2 * r > den THEN q + 1
        ELSE IF 2 * r < den THEN q
        ELSE IF q % 2 = 0 THEN q ELSE q + 1

TypePriority(expr_type) ==
    CASE expr_type = "medical_cultural" -> 20
      [] expr_type = "religious" -> 15
      [] expr_type = "proverb" -> 10
      [] expr_type \in {"family", "social"} -> 8
      [] expr_type \in {"food", "celebration"} -> 5
      [] expr_type \in {"weather", "work"} -> 3
      [] expr_type = "idiom" -> 2
      [] OTHER -> 0

\* _calculate_priority_score, in hundredths of a point.
CalculatePriorityScore(expressions, region, expr_type) ==
    LET n == Len(expressions)
    IN  5000
        + 100 * TypePriority(expr_type)
        + (IF region \in {"ouest", "nord", "sud"} THEN 1000
           ELSE IF region # "general" THEN 500 ELSE 0)
        + RoundDiv((100 * n - SumConfidence(expressions)) * 20, n)
        + (IF n >= 15 THEN 500 ELSE IF n >= 10 THEN 300 ELSE 0)

\* _extract_cultural_notes: the notes of the batch, as a set.
ExtractCulturalNotes(expressions) ==
    { expressions[k].cultural_note : k \in DOMAIN expressions } \ { <<>> }

\* _get_validation_criteria: the first criterion of the type's list names it.
ValidationCriteria(expr_type) ==
    CASE expr_type = "idiom" -> "Verify idiomatic meaning accuracy"
      [] expr_type = "proverb" -> "Verify traditional accuracy"
      [] expr_type = "medical_cultural" -> "Verify medical accuracy"
      [] expr_type = "religious" -> "Verify religious accuracy"
      [] expr_type = "family" -> "Verify family relationship accuracy"
      [] OTHER -> "Verify translation accuracy"

\* A slice that takes one expression more than the batch size.
Chunk_Overlong(expressions_list, i, batch_size) ==
    SubSeq(expressions_list, i + 1,
           IF i + batch_size + 1 < Len(expressions_list)
           THEN i + batch_size + 1 ELSE Len(expressions_list))

\* expressions_list[i:i + batch_size], for a positive batch size.
Chunk(expressions_list, i, batch_size) ==
    SubSeq(expressions_list, i + 1,
           IF i + batch_size < Len(expressions_list)
           THEN i + batch_size ELSE Len(expressions_list))

Batch(group, batch_expressions, batch_counter) ==
    [batch_id |-> <<"CULT", group.region, group.type, batch_counter>>,
     region |-> group.region,
     expression_type |-> group.type,
     expressions |-> batch_expressions,
     expert_domain |-> ExpertDomain(group.region, group.type),
     estimated_review_time |-> EstimateBatchTime(batch_expressions),
     priority_score |-> CalculatePriorityScore(batch_expressions, group.region, group.type),
     cultural_notes |-> ExtractCulturalNotes(batch_expressions),
     validation_criteria |-> ValidationCriteria(group.type)]

RECURSIVE MakeBatches_PerGroup(_, _, _, _, _)
\* A numbering that starts again at 1 with every group.
MakeBatches_PerGroup(groups, g, i, batch_size, batch_counter) ==
    IF g > Len(groups) THEN <<>>
    ELSE IF i >= Len(groups[g].expressions_list)
         THEN MakeBatches_PerGroup(groups, g + 1, 0, batch_size, 1)
         ELSE << Batch(groups[g], Chunk(groups[g].expressions_list, i, batch_size),
                       batch_counter) >>
              \o MakeBatches_PerGroup(groups, g, i + batch_size, batch_size, batch_counter + 1)

RECURSIVE MakeBatches_CounterKept(_, _, _, _, _)
\* A numbering that never increments batch_counter.
MakeBatches_CounterKept(groups, g, i, batch_size, batch_counter) ==
    IF g > Len(groups) THEN <<>>
    ELSE IF i >= Len(groups[g].expressions_list)
         THEN MakeBatches_CounterKept(groups, g + 1, 0, batch_size, batch_counter)
         ELSE << Batch(groups[g], Chunk(groups[g].expressions_list, i, batch_size),
                       batch_counter) >>
              \o MakeBatches_CounterKept(groups, g, i + batch_size, batch_size, batch_counter)

\* A NULL confidence column: expr.get('confidence', 0.5) is None.
NullConfidence == -1

\* _estimate_batch_time raises TypeError at `confidence < 0.4` for a row
\* whose confidence is NULL.
BatchRaises(batch_expressions) ==
    \E k \in DOMAIN batch_expressions : batch_expressions[k].confidence = NullConfidence

RECURSIVE MakeBatches(_, _, _, _, _)
\* The three nested loops for a positive batch size: group g, offset i into
\* its list, and the one batch_counter that runs across all groups.  A batch
\* whose construction raises ends the loops with the batches built so far.
MakeBatches(groups, g, i, batch_size, batch_counter) ==
    IF g > Len(groups) THEN <<>>
    ELSE IF i >= Len(groups[g].expressions_list)
         THEN MakeBatches(groups, g + 1, 0, batch_size, batch_counter)
         ELSE IF BatchRaises(Chunk(groups[g].expressions_list, i, batch_size))
              THEN <<>>
              ELSE << Batch(groups[g], Chunk(groups[g].expressions_list, i, batch_size),
                            batch_counter) >>
                   \o MakeBatches(groups, g, i + batch_size, batch_size, batch_counter + 1)

RECURSIVE InsertByScore(_, _)
InsertByScore(sorted, b) ==
    IF sorted = <<>> THEN << b >>
    ELSE IF Head(sorted).priority_score >= b.priority_score
         THEN << Head(sorted) >> \o InsertByScore(Tail(sorted), b)
         ELSE << b >> \o sorted

\* A run that returns the batches in the order it built them.
SortByScore_CreationOrder(batches) == batches

RECURSIVE SortByScore(_)
\* batches.sort(key=lambda b: b.priority_score, reverse=True): stable.
SortByScore(batches) ==
    IF batches = <<>> THEN <<>>
    ELSE InsertByScore(SortByScore(SubSeq(batches, 1, Len(batches) - 1)),
                       batches[Len(batches)])

\* create_batches.  classify_expression uses the module global re, bound only
\* when the module runs as a script: otherwise the first draft expression
\* raises NameError.  range() raises ValueError for a step of 0 and is empty
\* for a negative one.  Either exception is caught with batches still empty.
CreateBatches(batch_size, region_filter, type_filter) ==
    LET name_error == ~re_bound /\ Classified # <<>>
        groups == IF name_error THEN <<>>
                  ELSE Groups(Filtered(region_filter, type_filter))
        value_error == batch_size = 0 /\ groups # <<>>
        batches == IF name_error \/ value_error \/ batch_size < 0 THEN <<>>
                   ELSE MakeBatches(groups, 1, 0, batch_size, 1)
    IN  /\ ret' = [op |-> "create_batches", batch_size |-> batch_size,
                   region_filter |-> region_filter, type_filter |-> type_filter,
                   batches |-> SortByScore(batches)]
        /\ UNCHANGED <<reviews, sweep, risk_patterns, custom_calls, analysis, high_risk_terms,
                       store, re_bound>>

BatchSizes == {-1, 0, 1, 2, 3}
RegionFilters == {"None", "nord"}
TypeFilters == {"None", "family"}

\* The batcher on a database of expressions, loaded as a script or imported.
InitBatch ==
    /\ risk_patterns = InitialRiskPatterns
    /\ custom_calls = 0
    /\ analysis = [t \in LoggedTexts |-> NoCall]
    /\ high_risk_terms = {}
    /\ \E chosen \in SUBSET DOMAIN BatchCatalog :
           /\ Cardinality(chosen) <= MaxExpressions
           /\ store = [EmptyStore EXCEPT !["expressions"] = Picked(BatchCatalog, chosen)]
    /\ re_bound \in BOOLEAN
    /\ sweep = NoSweep
    /\ reviews = NoReviews
    /\ ret = [op |-> "init"]

NextBatch ==
    \/ \E batch_size \in BatchSizes, region_filter \in RegionFilters,
          type_filter \in TypeFilters :
           CreateBatches(batch_size, region_filter, type_filter)
    \/ \E entry_id \in 1..MaxExpressions, new_status \in StatusArgs :
           UpdateCurationStatus(entry_id, "expressions", new_status, "")

SpecBatch == InitBatch /\ [][NextBatch]_vars

\* Reviewers' decisions on expressions between requests for the queue and
\* for the batches.
NextFlow ==
    \/ \E batch_size \in {1, 2} : CreateBatches(batch_size, "None", "None")
    \/ GetPrioritizedTasks(5, 0, "None")
    \/ \E entry_id \in 1..MaxExpressions, new_status \in {"draft", "approved"} :
           UpdateCurationStatus(entry_id, "expressions", new_status, "")
    \/ \E task_id \in 1..MaxExpressions : MarkTaskCompleted("expressions", task_id, "")

SpecFlow == InitBatch /\ [][NextFlow]_vars

\* Expressions of which one has no confidence, for the batcher run as a
\* script with a positive batch size.
NullCatalog ==
    << ExpressionRow(X_manman, T_plain, <<>>, 40),
       ExpressionRow(X_bondye, T_plain, <<>>, 30),
       ExpressionRow(X_tonton, T_plain, <<>>, NullConfidence),
       ExpressionRow(X_piti, T_plain, N_saying, 55) >>

InitBatchNull ==
    /\ risk_patterns = InitialRiskPatterns
    /\ custom_calls = 0
    /\ analysis = [t \in LoggedTexts |-> NoCall]
    /\ high_risk_terms = {}
    /\ \E chosen \in SUBSET DOMAIN NullCatalog :
           /\ Cardinality(chosen) <= MaxExpressions
           /\ store = [EmptyStore EXCEPT !["expressions"] = Picked(NullCatalog, chosen)]
    /\ re_bound = TRUE
    /\ sweep = NoSweep
    /\ reviews = NoReviews
    /\ ret = [op |-> "init"]

NextBatchNull ==
    \/ \E batch_size \in {1, 2}, region_filter \in RegionFilters, type_filter \in TypeFilters :
           CreateBatches(batch_size, region_filter, type_filter)
    \/ \E entry_id \in 1..MaxExpressions :
           UpdateCurationStatus(entry_id, "expressions", "approved", "")

SpecBatchNull == InitBatchNull /\ [][NextBatchNull]_vars

----------------------------------------------------------------------------
(* classify_expression called directly on a triple of texts *)

\* Triples with a tie between two types (bondye, manman), with two regions
\* in one text (sud, okap) and with a pattern in each of the three parts.
CreoleArgs ==
    {X_manman, X_bondye, X_piti, <<"bondye", "manman">>,
     <<"bondye", "manman", "papa">>, <<"sud", "okap">>, <<>>}
EnglishArgs == {<<>>, T_plain, <<"kapital", "okap">>}
NoteArgs3 == {<<>>, N_saying, <<"lekay">>}

ClassifiedArgs ==
    [r \in CreoleArgs \X EnglishArgs \X NoteArgs3 |-> ClassifyExpression(r[1], r[2], r[3])]

\* classify_expression(creole_text, english_text, cultural_note): the first
\* re.search raises NameError while the module's name "re" is unbound.
ClassifyExpressionCall(creole_text, english_text, cultural_note) ==
    /\ ret' = IF re_bound
              THEN [op |-> "classify_expression", creole_text |-> creole_text,
                    english_text |-> english_text, cultural_note |-> cultural_note,
                    error |-> "None",
                    result |-> ClassifiedArgs[<<creole_text, english_text, cultural_note>>]]
              ELSE [op |-> "classify_expression", creole_text |-> creole_text,
                    english_text |-> english_text, cultural_note |-> cultural_note,
                    error |-> "NameError"]
    /\ UNCHANGED <<reviews, risk_patterns, custom_calls, analysis, high_risk_terms, store, re_bound, sweep>>

NextClassify ==
    \E creole_text \in CreoleArgs, english_text \in EnglishArgs, cultural_note \in NoteArgs3 :
        ClassifyExpressionCall(creole_text, english_text, cultural_note)

\* The batcher after construction, imported or run as a script; classifying
\* reads no stored data.
InitClassify ==
    /\ risk_patterns = InitialRiskPatterns
    /\ custom_calls = 0
    /\ analysis = [t \in LoggedTexts |-> NoCall]
    /\ high_risk_terms = {}
    /\ store = EmptyStore
    /\ re_bound \in BOOLEAN
    /\ sweep = NoSweep
    /\ reviews = NoReviews
    /\ ret = [op |-> "init"]

SpecClassify == InitClassify /\ [][NextClassify]_vars

----------------------------------------------------------------------------
(* Claims about the risk classifier (checked under SpecAnalyze) *)

\* C7, as stated: for every text, any two analyze calls made at any two points
\* of a run return identical flag lists.
C7_AnyTwoCallsAgree ==
    (ret.op = "analyze" /\ ret.prev.epoch # -1) => ret.flags = ret.prev.flags

\* C7, amended: two analyze calls on the same text return identical flag lists
\* when no add_custom_risk_pattern call was made between them, and the rule
\* table is the built-in one until add_custom_risk_pattern is called.
C7_CallsAgreeBetweenCustomRules ==
    /\ (ret.op = "analyze" /\ ret.prev.epoch = ret.epoch) => ret.flags = ret.prev.flags
    /\ custom_calls = 0 => risk_patterns = InitialRiskPatterns

\* Two calls on one text with a custom rule in the table and none added between.
C7_Witness ==
    /\ ret.op = "analyze"
    /\ ret.epoch >= 1
    /\ ret.prev.epoch = ret.epoch
    /\ ret.flags # <<>>

RuleMatches(rule, text) ==
    \E k \in DOMAIN rule.context_patterns : ReSearch(rule.context_patterns[k], text)

AnyMatches(patterns, text) ==
    \E k \in DOMAIN patterns : ReSearch(patterns[k], text)

\* C8: the result of analyze is one flag per vocabulary rule with a matching
\* pattern, in table order, then a medication_dosage flag exactly when a
\* medication pattern matches and a dosage_instruction flag exactly when a
\* dosage pattern matches, whatever the vocabulary rules found; the insulin
\* example yields the two High flags insulin and medication_dosage.
C8_FlagsAccumulate ==
    ret.op = "analyze" =>
        LET F       == ret.flags
            entries == RulesInOrder(risk_patterns)
            matched == {k \in DOMAIN entries : RuleMatches(entries[k].rule, ret.text)}
            nv      == Cardinality(matched)
            med     == AnyMatches(MedicationPatterns, ret.text)
            dos     == AnyMatches(DosagePatterns, ret.text)
            nm      == IF med THEN 1 ELSE 0
            nd      == IF dos THEN 1 ELSE 0
        IN  /\ Len(F) = nv + nm + nd
            /\ \A k \in matched :
                   LET i == Cardinality({m \in matched : m <= k})
                   IN  /\ F[i].term = entries[k].rule.term
                       /\ F[i].risk_level = entries[k].level
            /\ med => /\ F[nv + 1].term = <<"medication_dosage">>
                      /\ F[nv + 1].risk_level = "high"
            /\ dos => /\ F[nv + nm + 1].term = <<"dosage_instruction">>
                      /\ F[nv + nm + 1].risk_level = "high"
            /\ (ret.text = T_insulin /\ custom_calls = 0) =>
                   /\ Len(F) = 2
                   /\ F[1].term = <<"insulin">> /\ F[1].risk_level = "high"
                   /\ F[2].term = <<"medication_dosage">> /\ F[2].risk_level = "high"

\* A text matching a vocabulary rule and a medication pattern has been analysed.
C8_Witness ==
    /\ ret.op = "analyze"
    /\ ret.text = T_insulin
    /\ RuleMatches(HighRules[1], ret.text)
    /\ AnyMatches(MedicationPatterns, ret.text)
    /\ Len(ret.flags) = 2

----------------------------------------------------------------------------
(* Claims about calculate_priority (checked under SpecPriority) *)

TagSet(flags) == {flags[i] : i \in DOMAIN flags}

C2_CardiacArrestAlwaysCritical ==
    (ret.op = "calculate_priority" /\ ret.text = T_cardiac) => ret.priority = CRITICAL

----------------------------------------------------------------------------
(* Claims about the stored derived fields (checked under Spec) *)

StoredRows == { <<t, i>> \in Tables \X (1..MaxRows) : i \in DOMAIN store[t] }

HasFlagAt(row, level) ==
    \E k \in DOMAIN row.medical_risk_flags : row.medical_risk_flags[k].risk_level = level

\* C4: the priority_level a sweep stores with a row's flags is 1 exactly when
\* some stored flag has risk level critical, 2 exactly when none is critical
\* and some is high, and 3 otherwise; it is a function of the flags'
\* risk_level values alone.
C4_LevelFollowsRiskLevels ==
    \A p \in StoredRows :
        LET row == store[p[1]][p[2]]
        IN  row.medical_risk_flags # <<>> =>
                row.priority_level = (IF HasFlagAt(row, "critical") THEN 1
                                      ELSE IF HasFlagAt(row, "high") THEN 2
                                      ELSE 3)

\* C5: in every reachable state of the database, a row whose stored
\* priority_level is 1 (Critical) carries a flag of risk level critical or has
\* a confidence below 0.30, and so does the row of every Critical task of a
\* returned queue.
C5_CriticalIsGrounded ==
    /\ \A p \in StoredRows :
           LET row == store[p[1]][p[2]]
           IN  row.priority_level = 1 =>
                   \/ HasFlagAt(row, "critical")
                   \/ \E term \in high_risk_terms : Contains(term, Lower(row.src_text))
                   \/ row.confidence < 30
    /\ ret.op = "get_prioritized_tasks" =>
           \A k \in DOMAIN ret.tasks :
               ret.tasks[k].priority = CRITICAL =>
                   \/ \E term \in high_risk_terms :
                          Contains(term, Lower(ret.tasks[k].src_text))
                   \/ ret.tasks[k].confidence < 30

\* C6: a sweep that directly follows a sweep with the same table argument
\* changes nothing in the database: flags, review marker and priority level
\* of every row stay as the first sweep left them.
C6_RepeatedSweepChangesNothing ==
    (ret.op = "flag_database_entries" /\ ret.repeated) => ~ret.changed

\* A second sweep of the corpus has returned, and the corpus holds a draft row
\* that both sweeps flagged.
C6_Witness ==
    /\ ret.op = "flag_database_entries"
    /\ ret.repeated
    /\ ret.table_name = "corpus"
    /\ ret.stats.flagged > 0
    /\ \E i \in DOMAIN store["corpus"] :
           /\ store["corpus"][i].curation_status = "draft"
           /\ store["corpus"][i].medical_risk_flags # <<>>
           /\ store["corpus"][i].requires_immediate_review = 1

----------------------------------------------------------------------------
(* Claims about create_batches (checked under SpecBatch) *)

\* C9: every batch create_batches(batch_size = N) returns holds at least one
\* and at most N expressions, for any N, any filters and any database.
C9_BatchSizeWithinBounds ==
    ret.op = "create_batches" =>
        \A k \in DOMAIN ret.batches :
            /\ Len(ret.batches[k].expressions) >= 1
            /\ Len(ret.batches[k].expressions) <= ret.batch_size

\* A run with a batch size of 2 has returned a full batch and a shorter one
\* of the same group.
C9_Witness ==
    /\ ret.op = "create_batches"
    /\ ret.batch_size = 2
    /\ \E j, k \in DOMAIN ret.batches :
           /\ ret.batches[j].region = ret.batches[k].region
           /\ ret.batches[j].expression_type = ret.batches[k].expression_type
           /\ Len(ret.batches[j].expressions) = 2
           /\ Len(ret.batches[k].expressions) = 1

SeqOf(batch) == batch.batch_id[4]

SameGroup(a, b) == a.region = b.region /\ a.expression_type = b.expression_type

C11_SortedByDescendingScore ==
    ret.op = "create_batches" =>
        \A j, k \in DOMAIN ret.batches :
            j < k => ret.batches[j].priority_score >= ret.batches[k].priority_score

\* A run has returned a batch built later (higher number) ahead of a batch
\* built earlier, because its score is higher.
C11_Witness ==
    /\ ret.op = "create_batches"
    /\ \E j, k \in DOMAIN ret.batches :
           /\ j < k
           /\ SeqOf(ret.batches[j]) > SeqOf(ret.batches[k])
           /\ ret.batches[j].priority_score > ret.batches[k].priority_score

----------------------------------------------------------------------------
(* Claims about status changes and sweeps (checked under Spec) *)

\* C12: update_curation_status rejects a status outside draft / reviewed /
\* approved / rejected / needs_revision and a table outside the three curated
\* ones, so in every reachable state of the database every row's
\* curation_status is one of those five values.
C12_StatusWithinEnum ==
    \A p \in StoredRows :
        store[p[1]][p[2]].curation_status
            \in {"draft", "reviewed", "approved", "rejected", "needs_revision"}

\* C13: a mark_task_completed(table, id, notes) call on an existing row
\* leaves that row with curation_status reviewed, curator_notes = notes and
\* its curation_date written, whatever its status was, and changes nothing
\* else: no other field of the row and no other row.
C13_MarkSetsReviewedOnly ==
    [][ \A t \in Tables, id \in 1..MaxRows, notes \in NoteArgs :
          (MarkTaskCompleted(t, id, notes) /\ id \in DOMAIN store[t]) =>
              /\ store'[t][id] = [store[t][id] EXCEPT !.curation_status = "reviewed",
                                                      !.curator_notes = notes,
                                                      !.curation_date = Now]
              /\ \A u \in Tables :
                     /\ DOMAIN store'[u] = DOMAIN store[u]
                     /\ \A j \in DOMAIN store[u] :
                            <<u, j>> # <<t, id>> => store'[u][j] = store[u][j] ]_vars

\* A completion has returned on a database that holds a flagged row which was
\* approved before it was completed, next to a row that is still draft.
C13_Witness ==
    /\ ret.op = "mark_task_completed"
    /\ \E p, q \in StoredRows :
           /\ store[p[1]][p[2]].curation_status = "reviewed"
           /\ store[p[1]][p[2]].curator_notes = "ok"
           /\ store[p[1]][p[2]].curation_date = Now
           /\ store[p[1]][p[2]].updated_at = Now
           /\ store[p[1]][p[2]].medical_risk_flags # <<>>
           /\ store[q[1]][q[2]].curation_status = "draft"

----------------------------------------------------------------------------
(* Claims about estimate_curation_time (checked under SpecEstimate) *)

\* C14: for every text and tag list the estimate is min(30, 5 + w + m + c + v)
\* with w = 3 above 20 words, else 2 above 10; m = 10 with high_risk_medical,
\* else 5 with medical_domain; c = 3 with cultural_expression; v = 5 with
\* very_low_confidence.  It is never above 30 and never below 5.
C14_EstimateFormula ==
    ret.op = "estimate_curation_time" =>
        LET n == Len(ret.text)
            w == IF n > 20 THEN 3 ELSE IF n > 10 THEN 2 ELSE 0
            m == IF "high_risk_medical" \in ret.risk_flags THEN 10
                 ELSE IF "medical_domain" \in ret.risk_flags THEN 5 ELSE 0
            c == IF "cultural_expression" \in ret.risk_flags THEN 3 ELSE 0
            v == IF "very_low_confidence" \in ret.risk_flags THEN 5 ELSE 0
            total == 5 + w + m + c + v
        IN  /\ ret.minutes = (IF total < 30 THEN total ELSE 30)
            /\ ret.minutes <= 30
            /\ ret.minutes >= 5

\* The estimate of a text of more than 20 words that carries every tag: the
\* largest one there is.
C14_Witness ==
    /\ ret.op = "estimate_curation_time"
    /\ Len(ret.text) > 20
    /\ ret.risk_flags = TagNames
    /\ ret.minutes = 26

\* C15: for a draft corpus row "Call 911 immediately if chest pain worsens"
\* with confidence 0.9 and domain medical, the engine produces a flag of
\* category triage, a priority that is High or Critical, and
\* requires_immediate_review = true: once a sweep of the corpus has returned,
\* the row carries all three.
C15_Call911Scenario ==
    (ret.op = "flag_database_entries" /\ ret.table_name \in {"corpus", "None"}) =>
        \A i \in DOMAIN store["corpus"] :
            LET row == store["corpus"][i]
            IN  (row.src_text = T_911 /\ row.curation_status = "draft") =>
                    /\ \E k \in DOMAIN row.medical_risk_flags :
                           row.medical_risk_flags[k].category = "triage"
                    /\ row.requires_immediate_review = 1
                    /\ \/ row.priority_level \in {1, 2}
                       \/ CalculatePriority(high_risk_terms, row.confidence, row.domain,
                                            row.src_text, "corpus").priority
                              \in {CRITICAL, HIGH}

\* C16: a sweep changes only medical_risk_flags, requires_immediate_review and
\* priority_level, and only on draft rows: every row that is not draft, and
\* every other column of every row, is the same after the sweep as before.
C16_SweepWritesOnlyOwnedFields ==
    [][ ret'.op = "flag_database_entries" =>
              \A t \in Tables :
                  /\ DOMAIN store'[t] = DOMAIN store[t]
                  /\ \A i \in DOMAIN store[t] :
                         /\ store[t][i].curation_status # "draft"
                                => store'[t][i] = store[t][i]
                         /\ store'[t][i] =
                                [store[t][i] EXCEPT
                                    !.medical_risk_flags = store'[t][i].medical_risk_flags,
                                    !.requires_immediate_review =
                                        store'[t][i].requires_immediate_review,
                                    !.priority_level = store'[t][i].priority_level] ]_vars

\* A sweep of the whole database has returned: it flagged a draft row and
\* passed over a row with risky text that is no longer draft.
C16_Witness ==
    /\ ret.op = "flag_database_entries"
    /\ ret.table_name = "None"
    /\ ret.changed
    /\ \E p, q \in StoredRows :
           /\ store[p[1]][p[2]].curation_status = "draft"
           /\ store[p[1]][p[2]].medical_risk_flags # <<>>
           /\ store[q[1]][q[2]].curation_status # "draft"
           /\ AllRisks(store[q[1]][q[2]]) # <<>>
           /\ store[q[1]][q[2]].medical_risk_flags = <<>>

\* C17: a draft row with a text field missing or empty is skipped by a sweep
\* without any write and is recorded as skipped in the returned summary,
\* while the other draft rows are still classified and the summary is
\* returned.
C17_MalformedRowsSkipped ==
    /\ \A p \in StoredRows :
           LET row == store[p[1]][p[2]]
           IN  (row.src_text = <<>> \/ row.tgt_text = <<>>) =>
                   /\ row.medical_risk_flags = <<>>
                   /\ row.requires_immediate_review = Unset
                   /\ row.priority_level = Unset
    /\ ret.op = "flag_database_entries" =>
           /\ "skipped" \in DOMAIN ret.stats
           /\ ret.stats.skipped =
                  Cardinality({ p \in DraftRows(TablesToCheck(ret.table_name)) :
                                  \/ store[p[1]][p[2]].src_text = <<>>
                                  \/ store[p[1]][p[2]].tgt_text = <<>> })

----------------------------------------------------------------------------
(* Claims about interrupted sweeps (checked under SpecSweep) *)

\* The sweep ended by a crash or by a store error.
Interrupted ==
    /\ sweep.active
    /\ ~sweep'.active
    /\ \/ ret'.op = "crash"
       \/ ret'.op = "flag_database_entries" /\ ret'.raised

\* C18: when a sweep is interrupted by a crash or a store error, every row
\* of the store that remains is either classified (the three derived fields
\* written together) or as it was before the sweep, and the rows the sweep
\* had already updated keep their classification.
C18_InterruptedSweepKeepsUpdatedRows ==
    [][ Interrupted =>
            \A t \in Tables : \A i \in DOMAIN store[t] :
                /\ store'[t][i] \in {store[t][i], FlagRow(store[t][i])}
                /\ sweep.conn[t][i] # store[t][i] => store'[t][i] = sweep.conn[t][i] ]_vars

\* The counters of the flags found in the stored derived fields of the
\* draft rows of the given tables.
PersistedStats(tables) ==
    LET Flagged == { p \in DraftRows(tables) : store[p[1]][p[2]].medical_risk_flags # <<>> }
        AtLevel(level) ==
            UNION { { <<p, k>> : k \in { j \in DOMAIN store[p[1]][p[2]].medical_risk_flags :
                                           store[p[1]][p[2]].medical_risk_flags[j].risk_level = level } } :
                    p \in Flagged }
    IN  [flagged |-> Cardinality(Flagged),
         critical |-> Cardinality(AtLevel("critical")),
         high |-> Cardinality(AtLevel("high"))]

\* C19: the flagged, critical and high counts of a returned summary cover
\* only rows whose flags are in the store when the call returns, and the
\* summary of a run that hit a store error differs from the summary of a
\* clean sweep over the same rows.
C19_SummaryTellsFailedRuns ==
    (ret.op = "flag_database_entries" /\ "raised" \in DOMAIN ret) =>
        LET tables == TablesToCheck(ret.table_name)
        IN  /\ ret.stats.flagged <= PersistedStats(tables).flagged
            /\ ret.stats.critical <= PersistedStats(tables).critical
            /\ ret.stats.high <= PersistedStats(tables).high
            /\ ret.raised => ret.stats # FlagStats(tables)

----------------------------------------------------------------------------
(* Claims about classify_expression (checked under SpecClassify) *)

\* The regions, by position in the table, with at least one matching pattern.
MatchingRegions(full_text) ==
    { k \in DOMAIN RegionalPatterns :
        \E n \in DOMAIN RegionalPatterns[k].patterns :
            BatchSearch(RegionalPatterns[k].patterns[n], full_text) }

\* The types, by position in the table, whose match count no type exceeds.
TopTypes(full_text) ==
    { k \in DOMAIN ExpressionClassifiers :
        \A j \in DOMAIN ExpressionClassifiers :
            Matches(ExpressionClassifiers[j].patterns, full_text)
                <= Matches(ExpressionClassifiers[k].patterns, full_text) }

Least(S) == CHOOSE x \in S : \A y \in S : x <= y

\* C20: classify_expression returns, for every triple, the first region in
\* declaration order that has a matching pattern (general when none has)
\* and the earliest-declared type among those with the largest match count
\* (idiom when every count is zero), and a call on the same triple as the
\* call before returns the same result.
C20_ClassifyIsFixedFunction ==
    /\ [](ret.op = "classify_expression" =>
            /\ ret.error = "None"
            /\ LET full_text == FullText(ret.creole_text, ret.english_text, ret.cultural_note)
                   regions == MatchingRegions(full_text)
                   top == Least(TopTypes(full_text))
               IN  /\ ret.result.region =
                          IF regions = {} THEN "general"
                          ELSE RegionalPatterns[Least(regions)].region
                   /\ ret.result.type =
                          IF Matches(ExpressionClassifiers[top].patterns, full_text) = 0
                          THEN "idiom"
                          ELSE ExpressionClassifiers[top].type)
    /\ [][ ( /\ ret.op = "classify_expression"
             /\ ret'.op = "classify_expression"
             /\ ret'.creole_text = ret.creole_text
             /\ ret'.english_text = ret.english_text
             /\ ret'.cultural_note = ret.cultural_note ) => ret' = ret ]_vars

----------------------------------------------------------------------------
(* Claims about reviewers and sweeps at work at once (SpecConcurrent) *)

\* The (curation_status, curator_notes) pair of the entry a call names.
StoredPair(call) ==
    <<store[call.table][call.id].curation_status, store[call.table][call.id].curator_notes>>

\* The pair a call writes.
WrittenPair(call) == <<call.status, call.notes>>

C28_SweepSkipsRowsNoLongerDraft ==
    [][ (sweep.active /\ ~sweep'.active) =>
            \A i \in DOMAIN store["corpus"] :
                store["corpus"][i].curation_status # "draft" =>
                    /\ store'["corpus"][i].medical_risk_flags = store["corpus"][i].medical_risk_flags
                    /\ store'["corpus"][i].requires_immediate_review =
                           store["corpus"][i].requires_immediate_review
                    /\ store'["corpus"][i].priority_level = store["corpus"][i].priority_level ]_vars

----------------------------------------------------------------------------
(* Claims about create_batches on rows with missing fields (SpecBatchNull) *)

\* The draft expressions whose classification passes the filters of the
\* returned call.
Eligible ==
    { i \in DOMAIN store["expressions"] :
        LET row == store["expressions"][i]
            c == Classify(row.src_text, row.tgt_text, row.cultural_note)
        IN  /\ row.curation_status = "draft"
            /\ ret.region_filter \in {"None", c.region}
            /\ ret.type_filter \in {"None", c.type} }

\* The places of the returned batches that hold the expression with this id.
PlacesOf(i) ==
    { <<b, k>> \in (DOMAIN ret.batches) \X (1..MaxExpressions) :
        /\ k \in DOMAIN ret.batches[b].expressions
        /\ ret.batches[b].expressions[k].id = i }

\* C22: the batches create_batches returns partition the eligible entries:
\* every draft expression that passes the filters is in exactly one batch,
\* no other entry is in any batch, and every entry of a batch has the
\* batch's region and type; when a draft row has no confidence, the other
\* rows are still batched so.
C22_BatchesPartitionEligible ==
    ret.op = "create_batches" =>
        /\ \A i \in Eligible :
               store["expressions"][i].confidence # NullConfidence =>
                   Cardinality(PlacesOf(i)) = 1
        /\ \A i \in DOMAIN store["expressions"] \ Eligible : PlacesOf(i) = {}
        /\ \A b \in DOMAIN ret.batches : \A k \in DOMAIN ret.batches[b].expressions :
               LET e == ret.batches[b].expressions[k]
                   c == Classify(e.creole, e.idiomatic_en, e.cultural_note)
               IN  c.region = ret.batches[b].region /\ c.type = ret.batches[b].expression_type

----------------------------------------------------------------------------
(* Claims about the fields a sweep derives (checked under Spec) *)

\* C23: the requires_immediate_review a sweep writes on a row is set if
\* and only if one of the row's flags is of level high or critical; a row
\* whose flags are all moderate is written with it unset.
C23_ImmediateReviewFollowsLevel ==
    \A p \in StoredRows :
        LET row == store[p[1]][p[2]]
        IN  row.medical_risk_flags # <<>> =>
                (row.requires_immediate_review = 1
                    <=> \E k \in DOMAIN row.medical_risk_flags :
                            row.medical_risk_flags[k].risk_level \in {"high", "critical"})

----------------------------------------------------------------------------
(* Claims about the returned queue (checked under SpecQueue) *)

\* The places of the returned queue that hold the task of row i of table t.
QueuePlaces(t, i) ==
    { k \in DOMAIN ret.tasks : ret.tasks[k].table_name = t /\ ret.tasks[k].id = i }

\* The draft rows that pass the domain filter of the returned call.
DraftInDomain ==
    { p \in StoredRows :
        /\ store[p[1]][p[2]].curation_status = "draft"
        /\ ret.domain_filter \in {"None", store[p[1]][p[2]].domain} }

\* C25: every returned task carries the confidence stored on its row and
\* the priority calculate_priority gives for that stored value, and every
\* draft row with a stored confidence below 0.30 is returned as a Critical
\* task (unless the limit cut the queue before it).
C25_QueueUsesStoredConfidence ==
    ret.op = "get_prioritized_tasks" =>
        /\ \A k \in DOMAIN ret.tasks :
               LET task == ret.tasks[k]
                   row == store[task.table_name][task.id]
               IN  /\ task.confidence = row.confidence
                   /\ task.priority =
                          CalculatePriority(high_risk_terms, row.confidence, row.domain,
                                            row.src_text, task.table_name).priority
        /\ \A p \in DraftInDomain :
               store[p[1]][p[2]].confidence < 30 =>
                   \/ \E k \in QueuePlaces(p[1], p[2]) : ret.tasks[k].priority = CRITICAL
                   \/ Len(ret.tasks) = ret.limit

\* The draft rows that pass both filters of the returned call.
PassingRows ==
    { p \in DraftInDomain : ret.priority_filter \in {0, TaskOf(p[1], p[2]).priority} }

\* C26: the returned queue holds min(k, limit) tasks when k draft rows pass
\* the filters, every returned task passes the filters, and no omitted
\* passing row sorts strictly before a returned task.
C26_QueueIsFirstLimitTasks ==
    ret.op = "get_prioritized_tasks" =>
        /\ Len(ret.tasks) = IF Cardinality(PassingRows) < ret.limit
                            THEN Cardinality(PassingRows) ELSE ret.limit
        /\ \A k \in DOMAIN ret.tasks :
               /\ <<ret.tasks[k].table_name, ret.tasks[k].id>> \in PassingRows
               /\ \A p \in PassingRows :
                      QueuePlaces(p[1], p[2]) = {} => KeyLE(ret.tasks[k], TaskOf(p[1], p[2]))

----------------------------------------------------------------------------
(* Further claims about create_batches (checked under SpecBatch) *)

\* The query order: ascending confidence, then ascending id.
Precedes(a, b) ==
    \/ a.confidence < b.confidence
    \/ a.confidence = b.confidence /\ a.id < b.id

\* C24: in every returned batch the entries are in the query order
\* (ascending confidence, then ascending id); of two batches of one
\* (region, type) group, every entry of the one built earlier precedes
\* every entry of the one built later, and the earlier one holds exactly
\* batch_size entries.
C24_BatchesKeepQueryOrder ==
    ret.op = "create_batches" =>
        /\ \A b \in DOMAIN ret.batches :
               \A k, l \in DOMAIN ret.batches[b].expressions :
                   k < l => Precedes(ret.batches[b].expressions[k], ret.batches[b].expressions[l])
        /\ \A b, c \in DOMAIN ret.batches :
               (SameGroup(ret.batches[b], ret.batches[c])
                    /\ SeqOf(ret.batches[b]) < SeqOf(ret.batches[c])) =>
                   /\ Len(ret.batches[b].expressions) = ret.batch_size
                   /\ \A k \in DOMAIN ret.batches[b].expressions :
                          \A l \in DOMAIN ret.batches[c].expressions :
                              Precedes(ret.batches[b].expressions[k], ret.batches[c].expressions[l])

\* A group was cut into a full chunk of two entries and a later chunk, and
\* the full chunk holds two entries of equal confidence in id order.
C24_Witness ==
    /\ ret.op = "create_batches"
    /\ ret.batch_size = 2
    /\ \E b, c \in DOMAIN ret.batches :
           /\ SameGroup(ret.batches[b], ret.batches[c])
           /\ SeqOf(ret.batches[b]) < SeqOf(ret.batches[c])
           /\ ret.batches[b].expressions[1].confidence = ret.batches[b].expressions[2].confidence
           /\ ret.batches[b].expressions[1].id < ret.batches[b].expressions[2].id

\* C30: the batch_ids of one create_batches result are pairwise distinct.
C30_BatchIdsDistinct ==
    ret.op = "create_batches" =>
        \A b, c \in DOMAIN ret.batches :
            b # c => ret.batches[b].batch_id # ret.batches[c].batch_id

\* A result with two batches of one (region, type) group, whose ids differ
\* in the sequence number only.
C30_Witness ==
    /\ ret.op = "create_batches"
    /\ \E b, c \in DOMAIN ret.batches :
           /\ b # c
           /\ SameGroup(ret.batches[b], ret.batches[c])
           /\ SeqOf(ret.batches[b]) # SeqOf(ret.batches[c])

----------------------------------------------------------------------------
(* Claims about sweeps after upstream edits (checked under SpecStale) *)

----------------------------------------------------------------------------
(* Claims about entries leaving and re-entering draft (SpecFlow) *)

====
